---- MODULE Spec2Model ----
(***************************************************************************)
(* Analysis-session pipeline of the video analyzer.                        *)
(*                                                                         *)
(* Spec      : one web session from POST /api/analyze to its terminal      *)
(*             update, with the cancel request (DELETE) and the callbacks  *)
(*             of the automation client interleaved at every await.        *)
(* SpecBatch : OVHCloudClient.analyzeBatch, one call, requests of a batch  *)
(*             completing in any order.                                    *)
(*                                                                         *)
(* The browser agent, the player and the inference endpoint are opaque     *)
(* collaborators: each call on them succeeds or fails nondeterministically.*)
(***************************************************************************)
EXTENDS Integers, Sequences, FiniteSets, TLC

VARIABLES
  sessions,      \* SessionManager.sessions: session id -> session record
  pc,            \* position of startAnalysis
  stage,         \* position of the analyzer pipeline (the pending await)
  navPc,         \* position inside MidsceneClient.navigateToUrl
  prompt,        \* req.body.prompt
  url,           \* req.body.url
  browser,       \* the Playwright browser/page of the MidsceneClient
  releases,      \* number of MidsceneClient.close() calls that closed it
  tempFiles,     \* temp/captures holds captured frame files
  capIdx,        \* capture points of the plan already attempted
  frames,        \* frames captured so far
  analyses,      \* DynamicAnalyzer analysisResults, one entry per frame
  thrown,        \* error caught by analyze()'s catch, pending its cleanup
  outcome,       \* what analyze()/analyzeFromURL() returned
  faults,        \* which collaborator calls failed in this run
  calls,         \* collaborator calls performed: nav, capture, infer
  published,     \* broadcastToClients calls made for the session id
  lastEvents,    \* the messages broadcast by the latest step, in order
  progressSent,  \* progress callbacks delivered so far
  cancelled,     \* DELETE /:sessionId was served for the session
  atCancel,      \* calls, published and stage when the DELETE was served
  bFrames,       \* analyzeBatch: imageDataArray.length
  bSize,         \* options.batchSize (0: not given)
  bStart,        \* the loop variable i
  bFlight,       \* images whose analyzeImage awaits its POST
  bDone,         \* results of the current batch, in settlement order
  bResults,      \* the results array
  bDelays,       \* inter-batch pauses taken
  bBatches,      \* sizes of the batches formed
  bRequests,     \* POSTs made to the endpoint, per image
  bReplies,      \* what the endpoint answered, per image
  bPc,           \* position of analyzeBatch
  cEnabled,      \* config.cache.enabled
  cMode,         \* who analyses: analyzeContent's loop or a concurrent batch
  cFrame,        \* the frame (filename) each analysis is for; one prompt
  cPc,           \* position of each analysis: new, await, done
  cCache,        \* keys of analysisCache
  cReqs,         \* requests made to the endpoint, per frame
  cHits,         \* analyses answered from the cache
  cStart,        \* the batch loop variable i
  wsState,       \* WebSocket clients: new, open (in the map, OPEN), closing
                 \* (in the map, not OPEN), gone (deleted from the map)
  wsSub,         \* ws.sessionId of each client
  bcLast,        \* the latest broadcastToClients call and what it did
  apPc,          \* per session id: position of its startAnalysis
  apIssued,      \* ids uuidv4 has handed out
  response,      \* the latest HTTP response of the analyze routes
  twPc,          \* two analyzers sharing temp/captures: position of each
  twIdx,         \* capture points each has attempted
  twTried,       \* the points each has attempted, in the order attempted
  twOwn,         \* points whose seek and screenshot succeeded, per analyzer
  twFrames,      \* points in the frames list of each
  twKept,        \* points optimizeCaptures kept, per analyzer
  twOutcome,     \* what each analyze() returned
  dirExists,     \* temp/captures exists
  dirFiles,      \* files in temp/captures
  plPc,          \* determineCapturePlan: idle, asking (awaits agent.ai), planned
  plInfo,        \* its videoInfo argument
  plPrompt,      \* its userPrompt argument
  plPlan,        \* the plan it returned
  rnPc,          \* one session from player detection on: position of analyze()
  rnPrompt,      \* its prompt
  rnInfo,        \* getVideoInformation's result
  rnPlan,        \* the capture plan
  rnIdx,         \* capture points consumed
  rnFrames,      \* the frames captured, in order
  rnAnalyses,    \* analysisResults
  rnSynthesis,   \* synthesizedResult
  rnFaults,      \* the steps that failed
  rnResults,     \* what analyze() returned
  rnStatus,      \* the status of the session
  clPc,          \* close() of an analyzer: position
  clKind,        \* which analyzer: VideoLearningAnalyzer or ContentAgnosticVideoAnalyzer
  clClient,      \* this.midsceneClient: none, open, closed
  clStrategy,    \* this.captureStrategy: none, shipped, replaced
  clFiles,       \* the capture directory holds files
  clCache,       \* entries in the DynamicAnalyzer's analysisCache; -1: no analyzer
  ruEnabled,     \* one DynamicAnalyzer used for several videos: config.cache.enabled
  ruCache,       \* its analysisCache: key -> the frame and prompt analysed
  ruLast,        \* the latest analyzeFrame call and where its result came from
  stSettings,    \* what loadSettings() returns: settings.json over the defaults
  stLast,        \* the latest request to the settings routes and its answer
  suPc,          \* startAnalysis of the session the client started: position
  suClient,      \* how far the client is with its POST and its subscribe
  suGot,         \* the events of the session the client's socket was sent
  mvPc,          \* analyzeMultipleVideos: position inside the current request
  mvCount,       \* videoRequests.length
  mvIdx,         \* i
  mvPoint,       \* capture points of the current request settled
  mvShots,       \* screenshots the player handle delivered for it
  mvFiles,       \* frames of it written to captureDir
  mvDir,         \* captureDir exists
  mvResults,     \* results
  cfText,        \* the analysis text given to extractConfidence
  cfConfidence,  \* what extractConfidence returned for it
  hdPc,          \* captureFrames on the handle of player detection: position
  hdPlan,        \* its strategy argument
  hdNow,         \* the duration the player shows while the frames are captured
  hdIdx,         \* captureCount
  hdSeek,        \* the percentage of the latest videoHandler.seek call
  hdFrames,      \* number of frames gathered
  hdErrors,      \* the Errors the inner catch of captureFrames logged
  opPc,          \* optimizeCaptures: position
  opFrames,      \* its frames argument
  opIdx,         \* frames of the argument already visited by the loop
  opOut,         \* optimized
  cpAnswer,      \* what the agent said of the latest slide sample
  cpPc,          \* captureFrames for any strategy: position
  cpPlan,        \* its strategy argument
  cpIdx,         \* captureCount
  cpFrames,      \* frames
  cpSample,      \* captureSlideTransitions: samples taken
  cpSlides,      \* slideCount
  cpPrev         \* previousFrame is set

sessVars == <<sessions, pc, stage, navPc, prompt, url, browser, releases,
              tempFiles, capIdx, frames, analyses, thrown, outcome, faults,
              calls, published, lastEvents, progressSent, cancelled, atCancel>>
batchVars == <<bFrames, bSize, bStart, bFlight, bDone, bResults, bDelays,
               bBatches, bRequests, bReplies, bPc>>
cacheVars == <<cEnabled, cMode, cFrame, cPc, cCache, cReqs, cHits, cStart>>
wsVars == <<wsState, wsSub, bcLast>>
apiVars == <<apPc, apIssued, response>>
twoVars == <<twPc, twIdx, twTried, twOwn, twFrames, twKept, twOutcome, dirExists, dirFiles>>
planVars == <<plPc, plInfo, plPrompt, plPlan>>
runVars == <<rnPc, rnPrompt, rnInfo, rnPlan, rnIdx, rnFrames, rnAnalyses,
             rnSynthesis, rnFaults, rnResults, rnStatus>>
closeVars == <<clPc, clKind, clClient, clStrategy, clFiles, clCache>>
reuseVars == <<ruEnabled, ruCache, ruLast>>
settingsVars == <<stSettings, stLast>>
subVars == <<suPc, suClient, suGot>>
multiVars == <<mvPc, mvCount, mvIdx, mvPoint, mvShots, mvFiles, mvDir, mvResults>>
confVars == <<cfText, cfConfidence>>
hdVars == <<hdPc, hdPlan, hdNow, hdIdx, hdSeek, hdFrames, hdErrors>>
optVars == <<opPc, opFrames, opIdx, opOut>>
capVars == <<cpPc, cpPlan, cpIdx, cpFrames, cpSample, cpSlides, cpPrev,
            cpAnswer>>
vars == <<sessVars, batchVars, cacheVars, wsVars, apiVars, twoVars,
         planVars,
         runVars,
         closeVars,
         reuseVars,
         capVars,
         optVars,
         hdVars,
         confVars,
         multiVars,
         subVars,
         settingsVars>>

(***************************************************************************)
(* Bounds                                                                  *)
(***************************************************************************)
MaxPlanPoints == 2
MaxProgressCallbacks == 1
MaxBatchFrames == 5
MaxBatchSize == 3
MaxAnalyses == 3
MaxClients == 3
MaxSessions == 2
MaxThemeSections == 4
MaxSlideSamples == 3
MaxOptimizeFrames == 3
MaxRequests == 3

Null == "null"
sid == "s1"

Prompts == {"", "summarize this video"}
Urls == {Null, "https://example.com/v"}
ProgressValues == {5, 50}

\* a handler that lets every prompt through
PromptNeverMissing(p) == FALSE
\* if (!prompt): the prompt is absent or the empty string
PromptMissing(p) == p \in {Null, ""}

(***************************************************************************)
(* SessionManager                                                          *)
(***************************************************************************)
NewSession ==
  [status |-> "initializing", progress |-> 0, results |-> Null, error |-> Null]

CreateSession(m, id) == [k \in DOMAIN m \cup {id} |-> IF k = id THEN NewSession ELSE m[k]]

\* Object.assign(session, updates)
Assign(rec, updates) ==
  [f \in DOMAIN rec |-> IF f \in DOMAIN updates THEN updates[f] ELSE rec[f]]

UpdateSession(m, id, updates) ==
  IF id \in DOMAIN m THEN [m EXCEPT ![id] = Assign(@, updates)] ELSE m

\* session_update events updateSession broadcasts: one if the session exists
UpdateEvents(m, id) == IF id \in DOMAIN m THEN 1 ELSE 0

DeleteSession(m, id) == [k \in DOMAIN m \ {id} |-> m[k]]

(***************************************************************************)
(* The updates startAnalysis and its callbacks apply                       *)
(***************************************************************************)
InitializingUpdate == [status |-> "initializing", progress |-> 0]
NavigatingUpdate == [status |-> "navigating", progress |-> 10]
\* the completed update had it dropped the results
CompletedUpdateNoResults(results) == [status |-> "completed", progress |-> 100]
CompletedUpdate(results) == [status |-> "completed", progress |-> 100, results |-> results]
FailedUpdate(message) == [status |-> "failed", error |-> message]
ProgressUpdate(p) == [progress |-> p, status |-> "analyzing"]
StatusUpdate(s) == [status |-> s]

\* The analyzer hands the callbacks it was constructed with to the client.
CallbacksWired == TRUE

RECURSIVE EmitStatus(_, _)
\* the client's this.onStatus(s) for each s of ss, in order
EmitStatus(m, ss) ==
  IF ss = <<>> \/ ~CallbacksWired THEN m
  ELSE EmitStatus(UpdateSession(m, sid, StatusUpdate(Head(ss))), Tail(ss))

\* events of n status callbacks: session_update (if the session exists) + status
StatusEvents(m, n) == IF CallbacksWired THEN n * (UpdateEvents(m, sid) + 1) ELSE 0

\* events of n captureAndBroadcastScreenshot calls
ScreenshotEvents(n) == IF CallbacksWired THEN n ELSE 0

(***************************************************************************)
(* The messages handed to broadcastToClients, as type and payload fields   *)
(***************************************************************************)
Message(type, fields) == [type |-> type, carries |-> fields]

\* updateSession: { type: 'session_update', sessionId, ...updates }
UpdateLog(m, id, updates) ==
  IF id \in DOMAIN m THEN <<Message("session_update", DOMAIN updates)>> ELSE <<>>

RECURSIVE StatusLog(_, _)
\* onStatus for each status of ss: the update, then { type: 'status', status, details }
StatusLog(m, ss) ==
  IF ss = <<>> \/ ~CallbacksWired THEN <<>>
  ELSE UpdateLog(m, sid, StatusUpdate(Head(ss)))
         \o <<Message("status", {"status", "details"})>>
         \o StatusLog(m, Tail(ss))

\* onProgress: the update, then { type: 'progress', progress, message, screenshot }
ProgressLog(m, p) ==
  UpdateLog(m, sid, ProgressUpdate(p))
    \o <<Message("progress", {"progress", "message", "screenshot"})>>

\* onScreenshot: { type: 'screenshot', screenshot, action }
ScreenshotLog(n) ==
  IF CallbacksWired THEN [i \in 1..n |-> Message("screenshot", {"screenshot", "action"})]
  ELSE <<>>

\* startAnalysis' catch block: the failed update, then { type: 'error', error }
CatchLog(m) ==
  UpdateLog(m, sid, FailedUpdate("message"))
    \o <<Message("error", {"error"})>>

\* the completed update
CompleteLog(m) ==
  UpdateLog(m, sid, CompletedUpdate("results"))

(***************************************************************************)
(* State after construction: the server is up, no request was made.        *)
(***************************************************************************)
NoCalls == [nav |-> 0, capture |-> 0, infer |-> 0]
TotalCalls(c) == c.nav + c.capture + c.infer

BatchIdle ==
  /\ bFrames = 0 /\ bSize = 0 /\ bStart = 0 /\ bFlight = {} /\ bDone = <<>>
  /\ bResults = <<>> /\ bDelays = 0 /\ bBatches = <<>> /\ bPc = "off"
  /\ bRequests = <<>> /\ bReplies = <<>>

SessionIdle ==
  /\ sessions = <<>>
  /\ pc = "idle" /\ stage = "idle" /\ navPc = "off"
  /\ prompt = "" /\ url = Null
  /\ browser = "none" /\ releases = 0 /\ tempFiles = FALSE
  /\ capIdx = 0 /\ frames = 0 /\ analyses = <<>>
  /\ thrown = Null /\ outcome = Null /\ faults = {}
  /\ calls = NoCalls /\ published = 0 /\ lastEvents = <<>> /\ progressSent = 0
  /\ cancelled = FALSE /\ atCancel = [calls |-> 0, published |-> 0, stage |-> "idle"]

CacheIdle ==
  /\ cEnabled = FALSE /\ cMode = "off" /\ cFrame = <<>> /\ cPc = <<>>
  /\ cCache = {} /\ cReqs = <<>> /\ cHits = {} /\ cStart = 0

Clients == 1..MaxClients
NoBroadcast == [target |-> Null, eligible |-> {}, failing |-> {},
                delivered |-> {}, removed |-> {}, threw |-> FALSE]

\* wsClients = new Map(): no client has connected
WsIdle ==
  /\ wsState = [c \in Clients |-> "new"]
  /\ wsSub = [c \in Clients |-> Null]
  /\ bcLast = NoBroadcast

ApiIds == 1..MaxSessions
NoId == 0
NoResponse == [op |-> Null, id |-> NoId, code |-> 0, prompt |-> Null,
               status |-> Null, results |-> Null, error |-> Null]

\* no request was served
ApiIdle ==
  /\ apPc = [id \in ApiIds |-> "unused"]
  /\ apIssued = {}
  /\ response = NoResponse

Analyzers == {1, 2}

\* no analyzer was constructed
TwoIdle ==
  /\ twPc = [a \in Analyzers |-> "idle"]
  /\ twIdx = [a \in Analyzers |-> 0]
  /\ twTried = [a \in Analyzers |-> <<>>]
  /\ twOwn = [a \in Analyzers |-> {}]
  /\ twFrames = [a \in Analyzers |-> {}]
  /\ twKept = [a \in Analyzers |-> {}]
  /\ twOutcome = [a \in Analyzers |-> Null]
  /\ dirExists = FALSE /\ dirFiles = {}

\* getVideoInformation: the duration is a number of seconds, or not known
NoInfo == [known |-> FALSE, duration |-> 0]
NoPlan == [strategy |-> "none", capturePoints |-> <<>>]
PlanIdle ==
  /\ plPc = "idle" /\ plInfo = NoInfo /\ plPrompt = Null /\ plPlan = NoPlan

NoSynthesis == [synthesisType |-> "none", framesSynthesized |-> 0, keyThemes |-> 0]
NoResults == [success |-> FALSE, error |-> Null, framesAnalyzed |-> 0,
              frameAnalyses |-> <<>>, synthesizedResult |-> NoSynthesis]
RunIdle ==
  /\ rnPc = "idle" /\ rnPrompt = Null /\ rnInfo = NoInfo /\ rnPlan = NoPlan
  /\ rnIdx = 0 /\ rnFrames = <<>> /\ rnAnalyses = <<>>
  /\ rnSynthesis = NoSynthesis /\ rnFaults = {} /\ rnResults = NoResults
  /\ rnStatus = "none"

CloseIdle ==
  /\ clPc = "idle" /\ clKind = "agnostic" /\ clClient = "none"
  /\ clStrategy = "none" /\ clFiles = FALSE /\ clCache = -1

NoFrame == [video |-> 0, number |-> 0, seconds |-> 0]
NoCall == [frame |-> NoFrame, prompt |-> <<>>, hit |-> FALSE,
           from |-> [frame |-> NoFrame, prompt |-> <<>>]]
ReuseIdle == ruEnabled = FALSE /\ ruCache = <<>> /\ ruLast = NoCall

CaptureIdle ==
  /\ cpPc = "idle" /\ cpPlan = NoPlan /\ cpIdx = 0 /\ cpFrames = <<>>
  /\ cpSample = 0 /\ cpSlides = 0 /\ cpPrev = FALSE /\ cpAnswer = "none"

NoSeek == [kind |-> "none", value |-> 0, duration |-> 0]
HandleIdle ==
  /\ hdPc = "idle" /\ hdPlan = NoPlan /\ hdNow = 0 /\ hdIdx = 0
  /\ hdSeek = NoSeek /\ hdFrames = 0 /\ hdErrors = {}

NoText == [mention |-> "none", digits |-> 0, length |-> 0, hedged |-> FALSE]
NotExtracted == -1
ConfidenceIdle == cfText = NoText /\ cfConfidence = NotExtracted

MultiIdle ==
  /\ mvPc = "idle" /\ mvCount = 0 /\ mvIdx = 0 /\ mvPoint = 0 /\ mvShots = 0
  /\ mvFiles = {} /\ mvDir = FALSE /\ mvResults = <<>>

SubscribeIdle ==
  /\ suPc = [id \in 1..MaxSessions |-> "idle"]
  /\ suClient = [id \in 1..MaxSessions |-> "connected"]
  /\ suGot = [id \in 1..MaxSessions |-> {}]

\* defaultSettings
DefaultSettings ==
  [browser |-> [headless |-> TRUE, timeout |-> 30000, screenshotQuality |-> 80],
   analysis |-> [captureIntervals |-> 5, maxConcurrentAnalyses |-> 3,
                 analysisTimeout |-> 60000, frameStrategy |-> "comprehensive"],
   ai |-> [temperature |-> 1, maxTokens |-> 2000],
   capture |-> [enableScreenshots |-> TRUE, screenshotFormat |-> "png",
                compressionQuality |-> 80]]
NoRequest == [op |-> "none", body |-> <<>>, code |-> 0]
SettingsIdle == stSettings = DefaultSettings /\ stLast = NoRequest

OptimizeIdle == opPc = "idle" /\ opFrames = <<>> /\ opIdx = 0 /\ opOut = <<>>

\* the remaining parts at rest
OthersIdle == PlanIdle /\ RunIdle /\ CloseIdle /\ ReuseIdle /\ CaptureIdle /\ OptimizeIdle /\ HandleIdle /\ ConfidenceIdle /\ MultiIdle /\ SubscribeIdle /\ SettingsIdle

Init == SessionIdle /\ BatchIdle /\ CacheIdle /\ WsIdle /\ ApiIdle /\ TwoIdle
        /\ OthersIdle

Running == pc = "analyze"

(***************************************************************************)
(* router.post('/') and the synchronous head of startAnalysis              *)
(***************************************************************************)
\* An empty prompt is answered 400: no session, no analysis.
PostRejected ==
  /\ UNCHANGED <<batchVars, cacheVars, wsVars, apiVars, twoVars, planVars, runVars, closeVars, reuseVars, capVars, optVars, hdVars, confVars, multiVars, subVars, settingsVars>>
  /\ lastEvents' = <<>>
  /\ pc = "idle"
  /\ pc' = "rejected"
  /\ prompt' = ""
  /\ UNCHANGED <<sessions, stage, navPc, url, browser, releases, tempFiles,
                 capIdx, frames, analyses, thrown, outcome, faults, calls,
                 published, progressSent, cancelled, atCancel>>

\* createSession, then startAnalysis up to `await analyzer.configure(settings)`
PostAccepted(p, u) ==
  /\ UNCHANGED <<batchVars, cacheVars, wsVars, apiVars, twoVars, planVars, runVars, closeVars, reuseVars, capVars, optVars, hdVars, confVars, multiVars, subVars, settingsVars>>
  /\ pc = "idle"
  /\ ~PromptMissing(p)
  /\ LET created == CreateSession(sessions, sid)
     IN /\ sessions' = UpdateSession(created, sid, InitializingUpdate)
        /\ published' = published + UpdateEvents(created, sid)
        /\ lastEvents' = UpdateLog(created, sid, InitializingUpdate)
  /\ prompt' = p
  /\ url' = u
  /\ pc' = "configure"
  /\ UNCHANGED <<stage, navPc, browser, releases, tempFiles, capIdx, frames,
                 analyses, thrown, outcome, faults, calls, progressSent,
                 cancelled, atCancel>>

\* configure() resolved: the `navigating` update, then analyzeFromPrompt is
\* called and runs up to its first await (the analyzer's initialize()).
ConfigureDone ==
  /\ UNCHANGED <<batchVars, cacheVars, wsVars, apiVars, twoVars, planVars, runVars, closeVars, reuseVars, capVars, optVars, hdVars, confVars, multiVars, subVars, settingsVars>>
  /\ pc = "configure"
  /\ sessions' = UpdateSession(sessions, sid, NavigatingUpdate)
  /\ published' = published + UpdateEvents(sessions, sid)
  /\ lastEvents' = UpdateLog(sessions, sid, NavigatingUpdate)
  /\ pc' = "analyze"
  /\ stage' = "initialize"
  /\ UNCHANGED <<navPc, prompt, url, browser, releases, tempFiles, capIdx,
                 frames, analyses, thrown, outcome, faults, calls,
                 progressSent, cancelled, atCancel>>

\* startAnalysis' catch block: the failed update and the error event
CatchSessions(m, message) == UpdateSession(m, sid, FailedUpdate(message))
CatchEvents(m) == UpdateEvents(m, sid) + 1

\* startAnalysis after `await analyzer.analyzeFromPrompt`: the completed update
CompleteSessions(m, results) == UpdateSession(m, sid, CompletedUpdate(results))
CompleteEvents(m) == UpdateEvents(m, sid)

(***************************************************************************)
(* router.delete('/:sessionId'): deleteSession and nothing else            *)
(***************************************************************************)
Delete ==
  /\ UNCHANGED <<batchVars, cacheVars, wsVars, apiVars, twoVars, planVars, runVars, closeVars, reuseVars, capVars, optVars, hdVars, confVars, multiVars, subVars, settingsVars>>
  /\ sid \in DOMAIN sessions
  /\ sessions' = DeleteSession(sessions, sid)
  /\ published' = published + 1
  /\ lastEvents' = <<Message("session_deleted", {})>>
  /\ cancelled' = TRUE
  /\ atCancel' = [calls |-> TotalCalls(calls), published |-> published + 1,
                  stage |-> stage]
  /\ UNCHANGED <<pc, stage, navPc, prompt, url, browser, releases, tempFiles,
                 capIdx, frames, analyses, thrown, outcome, faults, calls,
                 progressSent>>

(***************************************************************************)
(* The onProgress callback of startAnalysis, delivered by the analysis     *)
(***************************************************************************)
OnProgress(p) ==
  /\ UNCHANGED <<batchVars, cacheVars, wsVars, apiVars, twoVars, planVars, runVars, closeVars, reuseVars, capVars, optVars, hdVars, confVars, multiVars, subVars, settingsVars>>
  /\ Running
  /\ CallbacksWired
  /\ progressSent < MaxProgressCallbacks
  /\ progressSent' = progressSent + 1
  /\ sessions' = UpdateSession(sessions, sid, ProgressUpdate(p))
  /\ published' = published + UpdateEvents(sessions, sid) + 1
  /\ lastEvents' = ProgressLog(sessions, p)
  /\ UNCHANGED <<pc, stage, navPc, prompt, url, browser, releases, tempFiles,
                 capIdx, frames, analyses, thrown, outcome, faults, calls,
                 cancelled, atCancel>>

(***************************************************************************)
(* analyzeFromPrompt(prompt, url): initialize(), then analyzeFromURL when   *)
(* a url was given and analyze otherwise; its result is handed back as is. *)
(***************************************************************************)
InitResults == {"ok", "ovhFail", "clientFail"}

\* analyzeFromPrompt throws when initialize() reports failure
InitFailureThrows == TRUE

\* statuses MidsceneClient.initialize emits
InitStatuses(r) ==
  IF r = "ok" THEN <<"initialized">>
  ELSE IF r = "clientFail" THEN <<"error">> ELSE <<>>

\* statuses emitted when navigateToUrl is entered (up to `await page.goto`)
NavEnterStatuses == <<"navigating">>

\* ContentAgnosticVideoAnalyzer.initialize resolved
Initialize(r) ==
  /\ UNCHANGED <<batchVars, cacheVars, wsVars, apiVars, twoVars, planVars, runVars, closeVars, reuseVars, capVars, optVars, hdVars, confVars, multiVars, subVars, settingsVars>>
  /\ Running /\ stage = "initialize"
  /\ IF r = "ok"
     THEN /\ browser' = "open"
          /\ IF url # Null
             THEN \* analyzeFromURL: midsceneClient.navigateToUrl(url) is entered
                  /\ sessions' = EmitStatus(sessions, InitStatuses(r) \o NavEnterStatuses)
                  /\ published' = published + StatusEvents(sessions, 2)
                  /\ lastEvents' = StatusLog(sessions, InitStatuses(r) \o NavEnterStatuses)
                  /\ stage' = "urlNav" /\ navPc' = "goto"
             ELSE \* analyze: navigator.navigateToVideo(userPrompt) is entered
                  /\ sessions' = EmitStatus(sessions, InitStatuses(r))
                  /\ published' = published + StatusEvents(sessions, 1)
                  /\ lastEvents' = StatusLog(sessions, InitStatuses(r))
                  /\ stage' = "extractTarget" /\ navPc' = "off"
          /\ UNCHANGED <<pc, faults>>
     ELSE /\ InitFailureThrows
          /\ LET emitted == EmitStatus(sessions, InitStatuses(r))
             IN /\ sessions' = CatchSessions(emitted, "initialization failed")
                /\ published' = published + StatusEvents(sessions, Len(InitStatuses(r)))
                                 + CatchEvents(emitted)
                /\ lastEvents' = StatusLog(sessions, InitStatuses(r)) \o CatchLog(emitted)
          /\ faults' = faults \cup {"init"}
          /\ pc' = "done" /\ stage' = "stopped"
          /\ UNCHANGED <<browser, navPc>>
  /\ UNCHANGED <<prompt, url, releases, tempFiles, capIdx, frames, analyses,
                 thrown, outcome, calls, progressSent, cancelled, atCancel>>

(***************************************************************************)
(* MidsceneClient.navigateToUrl, entered from analyzeFromURL (stage urlNav) *)
(* or from navigateToVideo (stage videoNav). Both callers drop its result. *)
(***************************************************************************)
InNav == Running /\ stage \in {"urlNav", "videoNav"}

\* `await page.goto` settled. Resolved: screenshot, handleCookieConsent is
\* entered. Rejected: status error, { success: false } is returned.
NavGoto(ok) ==
  /\ UNCHANGED <<batchVars, cacheVars, wsVars, apiVars, twoVars, planVars, runVars, closeVars, reuseVars, capVars, optVars, hdVars, confVars, multiVars, subVars, settingsVars>>
  /\ InNav /\ navPc = "goto"
  /\ calls' = [calls EXCEPT !.nav = @ + 1]
  /\ IF ok
     THEN /\ sessions' = EmitStatus(sessions, <<"checking">>)
          /\ published' = published + ScreenshotEvents(1) + StatusEvents(sessions, 1)
          /\ lastEvents' = ScreenshotLog(1) \o StatusLog(sessions, <<"checking">>)
          /\ navPc' = "consent"
          /\ UNCHANGED <<stage, faults>>
     ELSE /\ sessions' = EmitStatus(sessions, <<"error">>)
          /\ published' = published + StatusEvents(sessions, 1)
          /\ lastEvents' = StatusLog(sessions, <<"error">>)
          /\ navPc' = "off"
          /\ faults' = faults \cup {stage}
          /\ stage' = IF stage = "urlNav" THEN "extractTarget" ELSE "navigateRest"
  /\ UNCHANGED <<pc, prompt, url, browser, releases, tempFiles, capIdx, frames,
                 analyses, thrown, outcome, progressSent, cancelled, atCancel>>

\* handleCookieConsent settled: a dialog was dismissed or none was found
NavConsent(found) ==
  /\ UNCHANGED <<batchVars, cacheVars, wsVars, apiVars, twoVars, planVars, runVars, closeVars, reuseVars, capVars, optVars, hdVars, confVars, multiVars, subVars, settingsVars>>
  /\ InNav /\ navPc = "consent"
  /\ sessions' = EmitStatus(sessions, IF found THEN <<"consent-handled">> ELSE <<>>)
  /\ published' = published + StatusEvents(sessions, IF found THEN 1 ELSE 0)
  /\ lastEvents' = StatusLog(sessions, IF found THEN <<"consent-handled">> ELSE <<>>)
  /\ navPc' = "finish"
  /\ UNCHANGED <<pc, stage, prompt, url, browser, releases, tempFiles, capIdx,
                 frames, analyses, thrown, outcome, faults, calls, progressSent,
                 cancelled, atCancel>>

\* the closing screenshot, status navigated, { success: true } is returned
NavFinish ==
  /\ UNCHANGED <<batchVars, cacheVars, wsVars, apiVars, twoVars, planVars, runVars, closeVars, reuseVars, capVars, optVars, hdVars, confVars, multiVars, subVars, settingsVars>>
  /\ InNav /\ navPc = "finish"
  /\ sessions' = EmitStatus(sessions, <<"navigated">>)
  /\ published' = published + ScreenshotEvents(1) + StatusEvents(sessions, 1)
  /\ lastEvents' = ScreenshotLog(1) \o StatusLog(sessions, <<"navigated">>)
  /\ navPc' = "off"
  /\ stage' = IF stage = "urlNav" THEN "extractTarget" ELSE "navigateRest"
  /\ UNCHANGED <<pc, prompt, url, browser, releases, tempFiles, capIdx, frames,
                 analyses, thrown, outcome, faults, calls, progressSent,
                 cancelled, atCancel>>

(***************************************************************************)
(* ContentAgnosticVideoAnalyzer.analyze: each action is the continuation    *)
(* from one await to the next. A throw inside its try block leads to the   *)
(* catch block, which awaits captureStrategy.cleanup() (stage cleanup).    *)
(***************************************************************************)
\* navigator.extractTargetWebsite settled; null makes navigateToVideo report
\* failure, a target makes it enter client.navigateToUrl(targetSite)
ExtractTarget(found) ==
  /\ UNCHANGED <<batchVars, cacheVars, wsVars, apiVars, twoVars, planVars, runVars, closeVars, reuseVars, capVars, optVars, hdVars, confVars, multiVars, subVars, settingsVars>>
  /\ Running /\ stage = "extractTarget"
  /\ IF found
     THEN /\ sessions' = EmitStatus(sessions, NavEnterStatuses)
          /\ published' = published + StatusEvents(sessions, 1)
          /\ lastEvents' = StatusLog(sessions, NavEnterStatuses)
          /\ stage' = "videoNav" /\ navPc' = "goto"
          /\ UNCHANGED <<thrown, faults>>
     ELSE /\ thrown' = "Navigation failed"
          /\ faults' = faults \cup {"navigate"}
          /\ stage' = "cleanup"
          /\ UNCHANGED <<sessions, published, navPc>>
          /\ lastEvents' = <<>>
  /\ UNCHANGED <<pc, prompt, url, browser, releases, tempFiles, capIdx, frames,
                 analyses, outcome, calls, progressSent, cancelled, atCancel>>

\* the rest of navigateToVideo (popups, login, search, findAndAccessVideo)
NavigateRest(ok) ==
  /\ UNCHANGED <<batchVars, cacheVars, wsVars, apiVars, twoVars, planVars, runVars, closeVars, reuseVars, capVars, optVars, hdVars, confVars, multiVars, subVars, settingsVars>>
  /\ lastEvents' = <<>>
  /\ Running /\ stage = "navigateRest"
  /\ calls' = [calls EXCEPT !.nav = @ + 1]
  /\ IF ok
     THEN stage' = "detect" /\ UNCHANGED <<thrown, faults>>
     ELSE /\ thrown' = "Navigation failed"
          /\ faults' = faults \cup {"navigate"}
          /\ stage' = "cleanup"
  /\ UNCHANGED <<sessions, pc, navPc, prompt, url, browser, releases, tempFiles,
                 capIdx, frames, analyses, outcome, published, progressSent,
                 cancelled, atCancel>>

\* videoHandler.detectAndControlVideo settled, then getVideoInformation and
\* determineCapturePlan (neither fails)
DetectPlayer(ok) ==
  /\ UNCHANGED <<batchVars, cacheVars, wsVars, apiVars, twoVars, planVars, runVars, closeVars, reuseVars, capVars, optVars, hdVars, confVars, multiVars, subVars, settingsVars>>
  /\ lastEvents' = <<>>
  /\ Running /\ stage = "detect"
  /\ calls' = [calls EXCEPT !.nav = @ + 1]
  /\ IF ok
     THEN stage' = "capture" /\ UNCHANGED <<thrown, faults>>
     ELSE /\ thrown' = "Failed to detect and initialize video player controls"
          /\ faults' = faults \cup {"detect"}
          /\ stage' = "cleanup"
  /\ UNCHANGED <<sessions, pc, navPc, prompt, url, browser, releases, tempFiles,
                 capIdx, frames, analyses, outcome, published, progressSent,
                 cancelled, atCancel>>

\* captureFrames: one capture point; a failed point is skipped
CapturePoint(ok) ==
  /\ UNCHANGED <<batchVars, cacheVars, wsVars, apiVars, twoVars, planVars, runVars, closeVars, reuseVars, capVars, optVars, hdVars, confVars, multiVars, subVars, settingsVars>>
  /\ lastEvents' = <<>>
  /\ Running /\ stage = "capture"
  /\ capIdx < MaxPlanPoints
  /\ capIdx' = capIdx + 1
  /\ calls' = [calls EXCEPT !.capture = @ + 1]
  /\ frames' = IF ok THEN frames + 1 ELSE frames
  /\ tempFiles' = (tempFiles \/ ok)
  /\ stage' = IF capIdx + 1 = MaxPlanPoints THEN "optimize" ELSE "capture"
  /\ UNCHANGED <<sessions, pc, navPc, prompt, url, browser, releases, analyses,
                 thrown, outcome, faults, published, progressSent, cancelled,
                 atCancel>>

\* optimizeCaptures settled and performAdaptiveCapture returned: no frame is
\* fatal, otherwise analyzer.analyzeContent is entered
CaptureReturn ==
  /\ UNCHANGED <<batchVars, cacheVars, wsVars, apiVars, twoVars, planVars, runVars, closeVars, reuseVars, capVars, optVars, hdVars, confVars, multiVars, subVars, settingsVars>>
  /\ lastEvents' = <<>>
  /\ Running /\ stage = "optimize"
  /\ IF frames = 0
     THEN /\ thrown' = "No content captured for analysis"
          /\ faults' = faults \cup {"noFrames"}
          /\ stage' = "cleanup"
     ELSE stage' = "analyzeFrames" /\ UNCHANGED <<thrown, faults>>
  /\ UNCHANGED <<sessions, pc, navPc, prompt, url, browser, releases, tempFiles,
                 capIdx, frames, analyses, outcome, calls, published,
                 progressSent, cancelled, atCancel>>

(***************************************************************************)
(* DynamicAnalyzer.analyzeContent / analyzeFrame / synthesizeResults       *)
(***************************************************************************)
\* what the endpoint answers for a frame: a completion with text, a
\* completion whose content is empty, or a failure
FrameReplies == {"text", "empty", "fail"}

\* the analysisResults entry of a frame: analyzeFrame's result (its analysis
\* is the completion's content, its helpers do not throw on an empty one),
\* or the errored entry analyzeContent pushes when analyzeFrame threw
FrameEntry(reply) ==
  IF reply = "fail"
  THEN [error |-> "Frame analysis failed", analysis |-> Null]
  ELSE [error |-> Null, analysis |-> IF reply = "text" THEN "text" ELSE ""]

\* a filter on the error field alone
ErrorFreeAnalyses(as) == SelectSeq(as, LAMBDA a : a.error = Null)
\* synthesizeResults: validAnalyses = frameAnalyses.filter(a => !a.error && a.analysis)
ValidAnalyses(as) ==
  SelectSeq(as, LAMBDA a : a.error = Null /\ a.analysis \notin {Null, ""})

\* analyzeFrame of the next frame settled; after the last frame
\* synthesizeResults is entered and throws at once when nothing is valid
AnalyzeFrame(reply) ==
  /\ UNCHANGED <<batchVars, cacheVars, wsVars, apiVars, twoVars, planVars, runVars, closeVars, reuseVars, capVars, optVars, hdVars, confVars, multiVars, subVars, settingsVars>>
  /\ lastEvents' = <<>>
  /\ Running /\ stage = "analyzeFrames"
  /\ Len(analyses) < frames
  /\ calls' = [calls EXCEPT !.infer = @ + 1]
  /\ LET results == Append(analyses, FrameEntry(reply))
     IN /\ analyses' = results
        /\ IF Len(results) < frames
           THEN UNCHANGED <<stage, thrown, faults>>
           ELSE IF Len(ValidAnalyses(results)) = 0
                THEN /\ thrown' = "Analysis failed"
                     /\ faults' = faults \cup {"noValid"}
                     /\ stage' = "cleanup"
                ELSE stage' = "synthesize" /\ UNCHANGED <<thrown, faults>>
  /\ UNCHANGED <<sessions, pc, navPc, prompt, url, browser, releases, tempFiles,
                 capIdx, frames, outcome, published, progressSent, cancelled,
                 atCancel>>

\* the synthesis inference call settled
Synthesize(ok) ==
  /\ UNCHANGED <<batchVars, cacheVars, wsVars, apiVars, twoVars, planVars, runVars, closeVars, reuseVars, capVars, optVars, hdVars, confVars, multiVars, subVars, settingsVars>>
  /\ lastEvents' = <<>>
  /\ Running /\ stage = "synthesize"
  /\ calls' = [calls EXCEPT !.infer = @ + 1]
  /\ IF ok
     THEN stage' = "output" /\ UNCHANGED <<thrown, faults>>
     ELSE /\ thrown' = "Analysis failed"
          /\ faults' = faults \cup {"synthesis"}
          /\ stage' = "cleanup"
  /\ UNCHANGED <<sessions, pc, navPc, prompt, url, browser, releases, tempFiles,
                 capIdx, frames, analyses, outcome, published, progressSent,
                 cancelled, atCancel>>

\* outputGenerator.generateOutput settled
GenerateOutput(ok) ==
  /\ UNCHANGED <<batchVars, cacheVars, wsVars, apiVars, twoVars, planVars, runVars, closeVars, reuseVars, capVars, optVars, hdVars, confVars, multiVars, subVars, settingsVars>>
  /\ lastEvents' = <<>>
  /\ Running /\ stage = "output"
  /\ IF ok
     THEN UNCHANGED <<thrown, faults>>
     ELSE /\ thrown' = "Output generation failed"
          /\ faults' = faults \cup {"output"}
  /\ stage' = "cleanup"
  /\ UNCHANGED <<sessions, pc, navPc, prompt, url, browser, releases, tempFiles,
                 capIdx, frames, analyses, outcome, calls, published,
                 progressSent, cancelled, atCancel>>

(***************************************************************************)
(* Step 6 / the catch block of analyze, and the tail of startAnalysis      *)
(***************************************************************************)
\* what analyze() returns: { success: true, ... } or { success: false, error }
AnalyzeResult(error) == IF error = Null THEN "success" ELSE "failure"

\* analyzeFromPrompt hands a { success: false } result back, it does not throw
FailureResultThrows == FALSE

\* AdaptiveCaptureStrategy.cleanup: fs.remove(captureDir), errors swallowed
CleanupFiles(files, removed) == IF removed THEN FALSE ELSE files

\* browser state after analyze() returned: nothing in it closes the client
BrowserAfterAnalyze(b) == b

\* cleanup settled; analyze returns; startAnalysis applies its last update
FinishAnalysis(removed) ==
  /\ UNCHANGED <<batchVars, cacheVars, wsVars, apiVars, twoVars, planVars, runVars, closeVars, reuseVars, capVars, optVars, hdVars, confVars, multiVars, subVars, settingsVars>>
  /\ Running /\ stage = "cleanup"
  /\ tempFiles' = CleanupFiles(tempFiles, removed)
  /\ browser' = BrowserAfterAnalyze(browser)
  /\ LET result == AnalyzeResult(thrown)
     IN /\ outcome' = result
        /\ IF result = "failure" /\ FailureResultThrows
           THEN /\ sessions' = CatchSessions(sessions, thrown)
                /\ published' = published + CatchEvents(sessions)
                /\ lastEvents' = CatchLog(sessions)
           ELSE /\ sessions' = CompleteSessions(sessions, result)
                /\ published' = published + CompleteEvents(sessions)
                /\ lastEvents' = CompleteLog(sessions)
  /\ pc' = "done" /\ stage' = "stopped"
  /\ UNCHANGED <<navPc, prompt, url, releases, capIdx, frames, analyses, thrown,
                 faults, calls, progressSent, cancelled, atCancel>>

(***************************************************************************)
(* The session specification                                              *)
(***************************************************************************)
SessionNext ==
  \/ PostRejected
  \/ \E p \in Prompts, u \in Urls : PostAccepted(p, u)
  \/ ConfigureDone
  \/ Delete
  \/ \E p \in ProgressValues : OnProgress(p)
  \/ \E r \in InitResults : Initialize(r)
  \/ \E ok \in BOOLEAN : NavGoto(ok)
  \/ \E found \in BOOLEAN : NavConsent(found)
  \/ NavFinish
  \/ \E found \in BOOLEAN : ExtractTarget(found)
  \/ \E ok \in BOOLEAN : NavigateRest(ok)
  \/ \E ok \in BOOLEAN : DetectPlayer(ok)
  \/ \E ok \in BOOLEAN : CapturePoint(ok)
  \/ CaptureReturn
  \/ \E reply \in FrameReplies : AnalyzeFrame(reply)
  \/ \E ok \in BOOLEAN : Synthesize(ok)
  \/ \E ok \in BOOLEAN : GenerateOutput(ok)
  \/ \E removed \in BOOLEAN : FinishAnalysis(removed)

Next == SessionNext

Spec == Init /\ [][Next]_vars

(***************************************************************************)
(* Claims about the session                                                *)
(***************************************************************************)
Chain == <<"initializing", "navigating", "detecting_player", "capturing",
           "analyzing", "synthesizing", "completed">>
Rank(s) == CHOOSE i \in 1..Len(Chain) : Chain[i] = s
ChainStatuses == {Chain[i] : i \in 1..Len(Chain)}
TerminalStatuses == {"completed", "failed", "cancelled"}
SpecStatuses == ChainStatuses \cup {"failed", "cancelled"}
Live == sid \in DOMAIN sessions
Session == sessions[sid]

\* C1: a session in status completed or failed has exactly one of results and
\* error set; a session in any other status has neither.
C1_ResultXorError ==
  \A id \in DOMAIN sessions :
    LET s == sessions[id]
    IN IF s.status \in {"completed", "failed"}
       THEN (s.results # Null) # (s.error # Null)
       ELSE s.results = Null /\ s.error = Null

C1_Witness_FailedWithError ==
  Live /\ Session.status = "failed" /\ Session.error # Null /\ Session.results = Null

C5_CancelWhileCapturing ==
  (cancelled /\ atCancel.stage \in {"capture", "optimize"} /\ pc = "done") =>
     /\ Live /\ Session.status = "cancelled"
     /\ releases = 1 /\ browser = "closed"

\* C6: after a cancel the pipeline performs at most the call that was in
\* flight and publishes at most the events of that one step.
C6_StopsAfterCancel ==
  cancelled =>
     /\ TotalCalls(calls) <= atCancel.calls + 1
     /\ published <= atCancel.published + 3

\* C7: once navigation (direct-URL navigation included), player detection or
\* capture (zero frames) failed, no inference call is made, and the finished
\* session is failed.
FatalFaults == {"urlNav", "videoNav", "navigate", "detect", "noFrames"}
C7_FatalBeforeInference ==
  (faults \cap FatalFaults # {}) =>
     /\ calls.infer = 0
     /\ (Live /\ pc = "done" => Session.status = "failed")

\* C8: when the session is reported completed or failed, the browser is not
\* left open and no captured temporary file is left.
C8_ReleasedAtOutcome ==
  (Live /\ Session.status \in {"completed", "failed"}) =>
     browser # "open" /\ ~tempFiles

\* C9: every captured frame gets an entry, errored when its analysis failed;
\* the analysis fails for lack of valid input exactly when no frame
\* succeeded, and then the finished session is failed.
AnalysisOver == frames > 0 /\ stage \in {"synthesize", "output", "cleanup", "stopped"}
                /\ Len(analyses) > 0
Carried(events) == UNION {events[i].carries : i \in 1..Len(events)}
C15_TransitionsAnnounced ==
  [][\A id \in DOMAIN sessions \cap DOMAIN sessions' :
       sessions'[id].status # sessions[id].status
         => {"status", "progress"} \subseteq Carried(lastEvents')]_vars

(***************************************************************************)
(* OVHCloudClient.analyzeBatch(imageDataArray, prompts, options)           *)
(*                                                                         *)
(* Images are numbered 1..bFrames. analyzeImage never rejects: it resolves *)
(* to { success: true, ... } or { success: false, error }. bDone lists the  *)
(* results of the current batch in the order the requests settled, each    *)
(* tagged with the image its request was made for.                         *)
(***************************************************************************)
DefaultBatchSize == 3

\* const batchSize = options.batchSize || 3
BatchSize(given) == IF given = 0 THEN DefaultBatchSize ELSE given

Min(a, b) == IF a < b THEN a ELSE b

\* a slice one image longer than the batch size
WideSlice(n, i, size) == (i + 1)..Min(i + size + 1, n)
\* imageDataArray.slice(i, i + batchSize), as the numbers of its images
BatchSlice(n, i, size) == (i + 1)..Min(i + size, n)

\* the results in the order the requests settled (what a push per
\* settled request would give)
SettlementOrder(done, i, len) == done
\* Promise.all(batchPromises): the results in the order of the promises
PromiseAll(done, i, len) ==
  [j \in 1..len |-> done[CHOOSE k \in 1..Len(done) : done[k].frame = i + j]]

\* what the endpoint can answer to one POST: a completion, or a failure
\* (HTTP 429, network error, timeout) axios reports by rejecting
Replies == {"ok", "status 429", "Network Error", "timeout exceeded"}

\* analyzeImage with the failure reason left out of its result
AnalyzeImageNoReason(k, reply) == [frame |-> k, success |-> reply = "ok", error |-> Null]
\* analyzeImage's return value for image k: { success: true, analysis } or,
\* from its catch, { success: false, error: error.message }
AnalyzeImage(k, reply) ==
  [frame |-> k, success |-> reply = "ok",
   error |-> IF reply = "ok" THEN Null ELSE reply]

\* a pause after every batch
DelayAlways(n, i, size) == TRUE
\* if (i + batchSize < imageDataArray.length): the inter-batch pause
NeedsDelay(n, i, size) == i + size < n

BatchInit ==
  /\ SessionIdle /\ CacheIdle /\ WsIdle /\ ApiIdle /\ TwoIdle /\ OthersIdle
  /\ bFrames \in 0..MaxBatchFrames
  /\ bSize \in 0..MaxBatchSize
  /\ bStart = 0 /\ bFlight = {} /\ bDone = <<>> /\ bResults = <<>>
  /\ bDelays = 0 /\ bBatches = <<>> /\ bPc = "loop"
  /\ bRequests = [k \in 1..bFrames |-> 0]
  /\ bReplies = [k \in 1..bFrames |-> Null]

\* loop test passed: slice the batch and start one analyzeImage per image
BatchIssue ==
  /\ UNCHANGED <<sessVars, cacheVars, wsVars, apiVars, twoVars, planVars, runVars, closeVars, reuseVars, capVars, optVars, hdVars, confVars, multiVars, subVars, settingsVars>>
  /\ bPc = "loop" /\ bStart < bFrames
  /\ bFlight' = BatchSlice(bFrames, bStart, BatchSize(bSize))
  /\ bBatches' = Append(bBatches, Cardinality(BatchSlice(bFrames, bStart, BatchSize(bSize))))
  /\ bRequests' = [k \in DOMAIN bRequests |->
                     IF k \in BatchSlice(bFrames, bStart, BatchSize(bSize))
                     THEN bRequests[k] + 1 ELSE bRequests[k]]
  /\ bDone' = <<>>
  /\ bPc' = "await"
  /\ UNCHANGED <<bFrames, bSize, bStart, bResults, bDelays, bReplies>>

\* one request in flight settles, in any order, with any reply; analyzeImage
\* resolves to its result and makes no further request
RequestSettles(k, reply) ==
  /\ UNCHANGED <<sessVars, cacheVars, wsVars, apiVars, twoVars, planVars, runVars, closeVars, reuseVars, capVars, optVars, hdVars, confVars, multiVars, subVars, settingsVars>>
  /\ bPc = "await" /\ k \in bFlight
  /\ bFlight' = bFlight \ {k}
  /\ bReplies' = [bReplies EXCEPT ![k] = reply]
  /\ bDone' = Append(bDone, AnalyzeImage(k, reply))
  /\ UNCHANGED <<bFrames, bSize, bStart, bResults, bDelays, bBatches,
                 bRequests, bPc>>

\* Promise.all resolved: results.push(...batchResults), then the pause or
\* the next turn of the loop
BatchJoin ==
  /\ UNCHANGED <<sessVars, cacheVars, wsVars, apiVars, twoVars, planVars, runVars, closeVars, reuseVars, capVars, optVars, hdVars, confVars, multiVars, subVars, settingsVars>>
  /\ bPc = "await" /\ bFlight = {}
  /\ bResults' = bResults \o PromiseAll(bDone, bStart, Len(bDone))
  /\ IF NeedsDelay(bFrames, bStart, BatchSize(bSize))
     THEN bPc' = "delay" /\ UNCHANGED bStart
     ELSE bPc' = "loop" /\ bStart' = bStart + BatchSize(bSize)
  /\ UNCHANGED <<bFrames, bSize, bFlight, bDone, bDelays, bBatches,
                 bRequests, bReplies>>

\* the 1000 ms pause elapsed
BatchDelay ==
  /\ UNCHANGED <<sessVars, cacheVars, wsVars, apiVars, twoVars, planVars, runVars, closeVars, reuseVars, capVars, optVars, hdVars, confVars, multiVars, subVars, settingsVars>>
  /\ bPc = "delay"
  /\ bDelays' = bDelays + 1
  /\ bStart' = bStart + BatchSize(bSize)
  /\ bPc' = "loop"
  /\ UNCHANGED <<bFrames, bSize, bFlight, bDone, bResults, bBatches,
                 bRequests, bReplies>>

\* loop test failed: return results
BatchReturn ==
  /\ UNCHANGED <<sessVars, cacheVars, wsVars, apiVars, twoVars, planVars, runVars, closeVars, reuseVars, capVars, optVars, hdVars, confVars, multiVars, subVars, settingsVars>>
  /\ bPc = "loop" /\ bStart >= bFrames
  /\ bPc' = "returned"
  /\ UNCHANGED <<bFrames, bSize, bStart, bFlight, bDone, bResults, bDelays,
                 bBatches, bRequests, bReplies>>

BatchNext ==
  \/ BatchIssue
  \/ \E k \in 1..MaxBatchFrames, reply \in Replies : RequestSettles(k, reply)
  \/ BatchJoin
  \/ BatchDelay
  \/ BatchReturn

SpecBatch == BatchInit /\ [][BatchNext]_vars

\* C10: analyzeBatch returns one result per input image, the i-th result
\* being the one of the i-th image, whatever the batch size, the order in
\* which the requests of a batch settle and their outcomes.
C10_BatchOrderAndLength ==
  /\ \A i \in 1..Len(bResults) : bResults[i].frame = i
  /\ bPc = "returned" => Len(bResults) = bFrames

\* returned, with a failed request and a batch that settled out of order
C10_Witness_OutOfOrderWithFailure ==
  /\ bPc = "returned" /\ Len(bResults) = bFrames
  /\ Len(bDone) >= 2 /\ bDone[1].frame > bDone[2].frame
  /\ \E i \in 1..Len(bResults) : ~bResults[i].success
  /\ \E i \in 1..Len(bResults) : bResults[i].success

BatchOf(k) == (k - 1) \div BatchSize(bSize)
Requested(k) == bRequests[k] > 0
Completed(k) == bReplies[k] # Null

\* C28: at most batchSize requests are in flight at any moment, and a request
\* of a later batch is issued only after every request of the earlier
\* batches has completed and the pause after each of them has elapsed.
C28_BoundedFanOut ==
  /\ Cardinality(bFlight) <= BatchSize(bSize)
  /\ \A k \in 1..bFrames :
       /\ k \in bFlight <=> (Requested(k) /\ ~Completed(k))
       /\ Requested(k) =>
            /\ bDelays >= BatchOf(k)
            /\ \A j \in 1..bFrames : BatchOf(j) < BatchOf(k) => Completed(j)

\* the second batch is in flight, full, after one pause
C28_Witness_SecondBatchInFlight ==
  /\ Len(bBatches) = 2 /\ bDelays = 1
  /\ Cardinality(bFlight) = BatchSize(bSize) /\ BatchSize(bSize) > 1

\* C26: a request that the endpoint refused for rate limiting (status 429) is
\* made again: by the time analyzeBatch has returned, every image whose
\* request was refused was requested more than once.
C26_RateLimitRetried ==
  bPc = "returned" =>
    \A k \in 1..bFrames : bReplies[k] = "status 429" => bRequests[k] > 1

Ceil(n, b) == (n + b - 1) \div b

\* C14: for n >= 1 images and effective batch size b, ceil(n/b) batches are
\* formed, all of size b except possibly the last, and ceil(n/b) - 1 pauses
\* are taken, never one after the last batch (n = 0: no batch, no pause).
C14_BatchesAndDelays ==
  LET n == bFrames
      b == BatchSize(bSize)
  IN /\ bPc = "delay" => bStart + b < n
     /\ bDelays <= Len(bBatches)
     /\ (bDelays = Len(bBatches) /\ bDelays > 0) => (bPc = "loop" /\ bStart < n)
     /\ bPc = "returned" =>
          /\ Len(bBatches) = Ceil(n, b)
          /\ \A j \in 1..Len(bBatches) :
                /\ j < Len(bBatches) => bBatches[j] = b
                /\ bBatches[j] >= 1 /\ bBatches[j] <= b
          /\ bDelays = IF n = 0 THEN 0 ELSE Ceil(n, b) - 1

\* five images in batches of two: batches 2, 2, 1 and two pauses
C14_Witness_FiveByTwo ==
  /\ bPc = "returned" /\ bFrames = 5 /\ bSize = 2
  /\ bBatches = <<2, 2, 1>> /\ bDelays = 2


(***************************************************************************)
(* The analysis cache: DynamicAnalyzer.analyzeFrame called for one frame   *)
(* after the other by analyzeContent (mode sequence), and the per-         *)
(* screenshot tasks of VLMAnalyzer.analyzeContentBatch, started together   *)
(* batch by batch (mode batch). All analyses use the same prompt, so the   *)
(* cache key of an analysis is determined by its frame's filename.         *)
(***************************************************************************)
MaxConcurrent == 3
CacheFrames == {"a.png", "b.png"}
Analyses == 1..MaxAnalyses

\* `${filename}_${hash of the prompt}`, the prompt being the same throughout
CacheKey(t) == cFrame[t]

\* config.cache.enabled && this.analysisCache.has(cacheKey)
CacheHit(enabled, cache, key) == enabled /\ key \in cache

\* on success only: if (config.cache.enabled) analysisCache.set(cacheKey, result)
CacheAfterReply(enabled, cache, key, reply) ==
  IF enabled /\ reply = "ok" THEN cache \cup {key} ELSE cache

\* the analyses of ts run up to their first await: a hit returns the cached
\* result, a miss posts one request
HitsOf(ts) == {t \in ts : CacheHit(cEnabled, cCache, CacheKey(t))}
Lookup(ts) ==
  /\ cHits' = cHits \cup HitsOf(ts)
  /\ cPc' = [t \in Analyses |->
               IF t \notin ts THEN cPc[t]
               ELSE IF t \in HitsOf(ts) THEN "done" ELSE "await"]
  /\ cReqs' = [f \in CacheFrames |->
                 cReqs[f] + Cardinality({t \in ts \ HitsOf(ts) : cFrame[t] = f})]

CacheInit ==
  /\ SessionIdle /\ BatchIdle /\ WsIdle /\ ApiIdle /\ TwoIdle /\ OthersIdle
  /\ cEnabled \in BOOLEAN
  /\ cMode \in {"sequence", "batch"}
  /\ cFrame \in [Analyses -> CacheFrames]
  /\ cPc = [t \in Analyses |-> "new"]
  /\ cCache = {} /\ cReqs = [f \in CacheFrames |-> 0] /\ cHits = {} /\ cStart = 0

\* analyzeContent's loop: analyzeFrame of the next frame is entered once the
\* previous one has settled
SequenceStart(t) ==
  /\ UNCHANGED <<sessVars, batchVars, wsVars, apiVars, twoVars, planVars, runVars, closeVars, reuseVars, capVars, optVars, hdVars, confVars, multiVars, subVars, settingsVars>>
  /\ cMode = "sequence" /\ cPc[t] = "new"
  /\ \A u \in Analyses : u < t => cPc[u] = "done"
  /\ Lookup({t})
  /\ UNCHANGED <<cEnabled, cMode, cFrame, cCache, cStart>>

\* analyzeContentBatch: batch.map starts every task of the slice at once
CacheBatchStart ==
  /\ UNCHANGED <<sessVars, batchVars, wsVars, apiVars, twoVars, planVars, runVars, closeVars, reuseVars, capVars, optVars, hdVars, confVars, multiVars, subVars, settingsVars>>
  /\ cMode = "batch" /\ cStart < MaxAnalyses
  /\ \A t \in BatchSlice(MaxAnalyses, cStart, MaxConcurrent) : cPc[t] = "new"
  /\ Lookup(BatchSlice(MaxAnalyses, cStart, MaxConcurrent))
  /\ UNCHANGED <<cEnabled, cMode, cFrame, cCache, cStart>>

\* the request of analysis t settled
CacheSettle(t, reply) ==
  /\ UNCHANGED <<sessVars, batchVars, wsVars, apiVars, twoVars, planVars, runVars, closeVars, reuseVars, capVars, optVars, hdVars, confVars, multiVars, subVars, settingsVars>>
  /\ cPc[t] = "await"
  /\ cPc' = [cPc EXCEPT ![t] = "done"]
  /\ cCache' = CacheAfterReply(cEnabled, cCache, CacheKey(t), reply)
  /\ UNCHANGED <<cEnabled, cMode, cFrame, cReqs, cHits, cStart>>

\* Promise.all of the slice resolved (and the pause, if any, elapsed)
CacheBatchAdvance ==
  /\ UNCHANGED <<sessVars, batchVars, wsVars, apiVars, twoVars, planVars, runVars, closeVars, reuseVars, capVars, optVars, hdVars, confVars, multiVars, subVars, settingsVars>>
  /\ cMode = "batch" /\ cStart < MaxAnalyses
  /\ \A t \in BatchSlice(MaxAnalyses, cStart, MaxConcurrent) : cPc[t] = "done"
  /\ cStart' = cStart + MaxConcurrent
  /\ UNCHANGED <<cEnabled, cMode, cFrame, cPc, cCache, cReqs, cHits>>

CacheNext ==
  \/ \E t \in Analyses : SequenceStart(t)
  \/ CacheBatchStart
  \/ \E t \in Analyses, reply \in Replies : CacheSettle(t, reply)
  \/ CacheBatchAdvance

SpecCache == CacheInit /\ [][CacheNext]_vars

\* C12: with caching enabled, the analyses of one frame (and the one prompt)
\* make at most one request to the endpoint in total.
C12_AtMostOneRequest ==
  cEnabled => \A f \in CacheFrames : cReqs[f] <= 1


(***************************************************************************)
(* SessionManager.broadcastToClients and the WebSocket clients. Clients    *)
(* are numbered in the order they connect, the iteration order of the Map. *)
(***************************************************************************)
\* the clients the loop sends to: OPEN and subscribed to the session id
Eligible(target) ==
  {c \in Clients : wsState[c] = "open" /\ (target = Null \/ wsSub[c] = target)}

RECURSIVE SendFrom(_, _, _)
\* the loop body for client c and the clients after it: skip a client that is
\* not OPEN or not subscribed; send; on a throw delete the client and go on
SendFrom(c, failing, acc) ==
  IF c > MaxClients THEN acc
  ELSE IF c \notin acc.eligible THEN SendFrom(c + 1, failing, acc)
  ELSE IF c \in failing
       THEN SendFrom(c + 1, failing, [acc EXCEPT !.removed = @ \cup {c}])
       ELSE SendFrom(c + 1, failing, [acc EXCEPT !.delivered = @ \cup {c}])

\* a loop without the try/catch: the first throwing send ends the broadcast
SendAbortsLoop(target, eligible, failing) ==
  LET bad == eligible \cap failing
  IN IF bad = {}
     THEN [target |-> target, eligible |-> eligible, failing |-> bad,
           delivered |-> eligible, removed |-> {}, threw |-> FALSE]
     ELSE LET first == CHOOSE c \in bad : \A d \in bad : c <= d
          IN [target |-> target, eligible |-> eligible, failing |-> bad,
              delivered |-> {c \in eligible : c < first}, removed |-> {},
              threw |-> TRUE]
\* the forEach of broadcastToClients: every send in its own try/catch, the
\* catch deleting the client; failing are the clients whose send throws
SendLoop(target, eligible, failing) ==
  SendFrom(1, failing,
           [target |-> target, eligible |-> eligible,
            failing |-> eligible \cap failing,
            delivered |-> {}, removed |-> {}, threw |-> FALSE])

\* wss.on('connection'): the next client is added to the map
WsConnect(c) ==
  /\ UNCHANGED <<sessVars, batchVars, cacheVars, apiVars, twoVars, planVars, runVars, closeVars, reuseVars, capVars, optVars, hdVars, confVars, multiVars, subVars, settingsVars>>
  /\ wsState[c] = "new" /\ \A d \in Clients : d < c => wsState[d] # "new"
  /\ wsState' = [wsState EXCEPT ![c] = "open"]
  /\ UNCHANGED <<wsSub, bcLast>>

\* ws.on('message') with { type: 'subscribe', sessionId }
WsSubscribe(c, id) ==
  /\ UNCHANGED <<sessVars, batchVars, cacheVars, apiVars, twoVars, planVars, runVars, closeVars, reuseVars, capVars, optVars, hdVars, confVars, multiVars, subVars, settingsVars>>
  /\ wsState[c] = "open"
  /\ wsSub' = [wsSub EXCEPT ![c] = id]
  /\ UNCHANGED <<wsState, bcLast>>

\* the socket leaves the OPEN state; its close event has not fired yet
WsClosing(c) ==
  /\ UNCHANGED <<sessVars, batchVars, cacheVars, apiVars, twoVars, planVars, runVars, closeVars, reuseVars, capVars, optVars, hdVars, confVars, multiVars, subVars, settingsVars>>
  /\ wsState[c] = "open"
  /\ wsState' = [wsState EXCEPT ![c] = "closing"]
  /\ UNCHANGED <<wsSub, bcLast>>

\* ws.on('close') / ws.on('error'): wsClients.delete(clientId)
WsClose(c) ==
  /\ UNCHANGED <<sessVars, batchVars, cacheVars, apiVars, twoVars, planVars, runVars, closeVars, reuseVars, capVars, optVars, hdVars, confVars, multiVars, subVars, settingsVars>>
  /\ wsState[c] \in {"open", "closing"}
  /\ wsState' = [wsState EXCEPT ![c] = "gone"]
  /\ UNCHANGED <<wsSub, bcLast>>

\* broadcastToClients(target, data), the send throwing for the clients failing
Broadcast(target, failing) ==
  /\ UNCHANGED <<sessVars, batchVars, cacheVars, apiVars, twoVars, planVars, runVars, closeVars, reuseVars, capVars, optVars, hdVars, confVars, multiVars, subVars, settingsVars>>
  /\ LET done == SendLoop(target, Eligible(target), failing)
     IN /\ bcLast' = done
        /\ wsState' = [c \in Clients |-> IF c \in done.removed THEN "gone" ELSE wsState[c]]
  /\ UNCHANGED wsSub

BroadcastNext ==
  \/ \E c \in Clients : WsConnect(c)
  \/ \E c \in Clients : WsSubscribe(c, sid)
  \/ \E c \in Clients : WsClosing(c)
  \/ \E c \in Clients : WsClose(c)
  \/ \E failing \in SUBSET Clients : Broadcast(sid, failing)

SpecBroadcast == Init /\ [][BroadcastNext]_vars

\* C16: a broadcast reaches every open subscriber of the session whose send
\* did not throw, whatever the sends to the others did; it does not throw
\* into the publisher; the subscribers whose send threw are out of the map.
C16_SendFailureIsLocal ==
  /\ bcLast.delivered = bcLast.eligible \ bcLast.failing
  /\ ~bcLast.threw
  /\ \A c \in bcLast.failing : wsState[c] = "gone"

\* a send failed for an earlier client and a later subscriber was reached
C16_Witness_LaterSubscriberReached ==
  \E c \in bcLast.failing, d \in bcLast.delivered : c < d /\ wsState[c] = "gone"


(***************************************************************************)
(* The analyze routes over several sessions. What a running startAnalysis  *)
(* does to its session is kept to its updates: initializing, navigating,   *)
(* the status callbacks, then completed or failed.                         *)
(***************************************************************************)
ApiPrompts == {Null, "", " ", "summarize this video"}
ApiStatuses == {"initialized", "navigated"}
ApiOutcomes == {"success", "failure", "thrown"}

Response(op, id, code) == [NoResponse EXCEPT !.op = op, !.id = id, !.code = code]

\* a results route without the 202 branch
GetResultUngated(m, id) ==
  IF id \notin DOMAIN m THEN Response("results", id, 404)
  ELSE [Response("results", id, 200) EXCEPT
          !.status = m[id].status, !.results = m[id].results,
          !.error = m[id].error]
\* router.get('/results/:sessionId')
GetResult(m, id) ==
  IF id \notin DOMAIN m THEN Response("results", id, 404)
  ELSE IF m[id].status # "completed" /\ m[id].status # "failed"
  THEN [Response("results", id, 202) EXCEPT !.status = m[id].status]
  ELSE [Response("results", id, 200) EXCEPT
          !.status = m[id].status, !.results = m[id].results,
          !.error = m[id].error]

\* router.post('/'): 400 without a prompt; otherwise createSession with a
\* new uuid and startAnalysis up to its first await
Start(p, id) ==
  /\ UNCHANGED <<batchVars, cacheVars, wsVars, twoVars, planVars, runVars, closeVars, reuseVars, capVars, optVars, hdVars, confVars, multiVars, subVars, settingsVars>>
  /\ IF PromptMissing(p)
     THEN /\ response' = [Response("start", NoId, 400) EXCEPT !.prompt = p]
          /\ lastEvents' = <<>>
          /\ UNCHANGED <<sessions, apPc, apIssued>>
     ELSE /\ id \notin apIssued
          /\ LET created == CreateSession(sessions, id)
             IN /\ sessions' = UpdateSession(created, id, InitializingUpdate)
                /\ lastEvents' = UpdateLog(created, id, InitializingUpdate)
                /\ response' = [Response("start", id, 200) EXCEPT
                                  !.prompt = p, !.status = created[id].status]
          /\ apPc' = [apPc EXCEPT ![id] = "configure"]
          /\ apIssued' = apIssued \cup {id}
  /\ UNCHANGED <<pc, stage, navPc, prompt, url, browser, releases, tempFiles,
                 capIdx, frames, analyses, thrown, outcome, faults, calls,
                 published, progressSent, cancelled, atCancel>>

\* configure resolved: the navigating update
ApiConfigured(id) ==
  /\ UNCHANGED <<batchVars, cacheVars, wsVars, twoVars, planVars, runVars, closeVars, reuseVars, capVars, optVars, hdVars, confVars, multiVars, subVars, settingsVars>>
  /\ apPc[id] = "configure"
  /\ apPc' = [apPc EXCEPT ![id] = "analyze"]
  /\ sessions' = UpdateSession(sessions, id, NavigatingUpdate)
  /\ lastEvents' = UpdateLog(sessions, id, NavigatingUpdate)
  /\ UNCHANGED <<apIssued, response>>
  /\ UNCHANGED <<pc, stage, navPc, prompt, url, browser, releases, tempFiles,
                 capIdx, frames, analyses, thrown, outcome, faults, calls,
                 published, progressSent, cancelled, atCancel>>

\* a status callback of the running analysis
ApiStatus(id, st) ==
  /\ UNCHANGED <<batchVars, cacheVars, wsVars, twoVars, planVars, runVars, closeVars, reuseVars, capVars, optVars, hdVars, confVars, multiVars, subVars, settingsVars>>
  /\ apPc[id] = "analyze" /\ CallbacksWired
  /\ sessions' = UpdateSession(sessions, id, StatusUpdate(st))
  /\ lastEvents' = UpdateLog(sessions, id, StatusUpdate(st))
                     \o <<Message("status", {"status", "details"})>>
  /\ UNCHANGED <<apPc, apIssued, response>>
  /\ UNCHANGED <<pc, stage, navPc, prompt, url, browser, releases, tempFiles,
                 capIdx, frames, analyses, thrown, outcome, faults, calls,
                 published, progressSent, cancelled, atCancel>>

\* analyzeFromPrompt settled: the completed update with what it returned, or
\* the catch block with the message of what it threw
ApiFinish(id, how) ==
  /\ UNCHANGED <<batchVars, cacheVars, wsVars, twoVars, planVars, runVars, closeVars, reuseVars, capVars, optVars, hdVars, confVars, multiVars, subVars, settingsVars>>
  /\ apPc[id] = "analyze"
  /\ apPc' = [apPc EXCEPT ![id] = "done"]
  /\ IF how = "thrown"
     THEN /\ sessions' = UpdateSession(sessions, id, FailedUpdate("initialization failed"))
          /\ lastEvents' = UpdateLog(sessions, id, FailedUpdate("initialization failed"))
                             \o <<Message("error", {"error"})>>
     ELSE /\ sessions' = UpdateSession(sessions, id, CompletedUpdate(how))
          /\ lastEvents' = UpdateLog(sessions, id, CompletedUpdate(how))
  /\ UNCHANGED <<apIssued, response>>
  /\ UNCHANGED <<pc, stage, navPc, prompt, url, browser, releases, tempFiles,
                 capIdx, frames, analyses, thrown, outcome, faults, calls,
                 published, progressSent, cancelled, atCancel>>

\* router.delete('/:sessionId')
ApiDelete(id) ==
  /\ UNCHANGED <<batchVars, cacheVars, wsVars, twoVars, planVars, runVars, closeVars, reuseVars, capVars, optVars, hdVars, confVars, multiVars, subVars, settingsVars>>
  /\ id \in DOMAIN sessions
  /\ sessions' = DeleteSession(sessions, id)
  /\ lastEvents' = <<Message("session_deleted", {})>>
  /\ response' = Response("delete", id, 200)
  /\ UNCHANGED <<apPc, apIssued>>
  /\ UNCHANGED <<pc, stage, navPc, prompt, url, browser, releases, tempFiles,
                 capIdx, frames, analyses, thrown, outcome, faults, calls,
                 published, progressSent, cancelled, atCancel>>

\* router.get('/results/:sessionId')
GetResults(id) ==
  /\ UNCHANGED <<batchVars, cacheVars, wsVars, twoVars, planVars, runVars, closeVars, reuseVars, capVars, optVars, hdVars, confVars, multiVars, subVars, settingsVars>>
  /\ response' = GetResult(sessions, id)
  /\ lastEvents' = <<>>
  /\ UNCHANGED <<sessions, apPc, apIssued>>
  /\ UNCHANGED <<pc, stage, navPc, prompt, url, browser, releases, tempFiles,
                 capIdx, frames, analyses, thrown, outcome, faults, calls,
                 published, progressSent, cancelled, atCancel>>

ApiNext ==
  \/ \E p \in ApiPrompts, id \in ApiIds : Start(p, id)
  \/ \E id \in ApiIds : ApiConfigured(id)
  \/ \E id \in ApiIds, st \in ApiStatuses : ApiStatus(id, st)
  \/ \E id \in ApiIds, how \in ApiOutcomes : ApiFinish(id, how)
  \/ \E id \in ApiIds : ApiDelete(id)
  \/ \E id \in ApiIds : GetResults(id)

SpecApi == Init /\ [][ApiNext]_vars

\* C17: a start is refused exactly when the prompt is empty; a refused start
\* leaves the sessions as they are and broadcasts nothing; an accepted start
\* adds exactly one session, under an id no existing session has, in status
\* initializing with progress 0, and leaves the other sessions as they are.
C17_StartContract ==
  [][(response'.op = "start" /\ response' # response) =>
       /\ response'.code \in {200, 400}
       /\ response'.code = 400 <=> response'.prompt \in {Null, ""}
       /\ response'.code = 400 => (sessions' = sessions /\ lastEvents' = <<>>)
       /\ response'.code = 200 =>
            LET id == response'.id
            IN /\ id \notin DOMAIN sessions
               /\ DOMAIN sessions' = DOMAIN sessions \cup {id}
               /\ sessions'[id].status = "initializing"
               /\ sessions'[id].progress = 0
               /\ \A k \in DOMAIN sessions : sessions'[k] = sessions[k]]_vars

\* a second session was started while the first one exists
C17_Witness_SecondSessionStarted ==
  /\ response.op = "start" /\ response.code = 200
  /\ Cardinality(DOMAIN sessions) = 2
  /\ sessions[response.id].status = "initializing"
  /\ \E k \in DOMAIN sessions : sessions[k].status = "completed"

\* C18: the results route answers 202 without a result for a session that is
\* neither completed nor failed, the stored result for a completed session,
\* and for a failed session the status failed with the recorded error
\* message; it hands out a result only for a terminal session.
C18_ResultsContract ==
  [][(response'.op = "results" /\ response' # response
        /\ response'.id \in DOMAIN sessions) =>
       LET r == response'
           s == sessions[r.id]
       IN /\ s.status \notin {"completed", "failed"} =>
               (r.code = 202 /\ r.results = Null /\ r.error = Null)
          /\ s.status = "completed" =>
               (r.code = 200 /\ r.results = s.results /\ r.results # Null)
          /\ s.status = "failed" =>
               (r.code = 200 /\ r.status = "failed" /\ r.results = Null
                  /\ r.error = "initialization failed")
          /\ r.results # Null => s.status \in TerminalStatuses]_vars

\* the results of a failed session were asked for and carry its message
C18_Witness_FailedVerbatim ==
  /\ response.op = "results" /\ response.code = 200
  /\ response.status = "failed" /\ response.error = "initialization failed"


(***************************************************************************)
(* Two analyzers running in one process. Each AdaptiveCaptureStrategy uses *)
(* the directory temp/captures of the process and names the file of plan   *)
(* point k adaptive_frame_<k>_<t>s.png; both analyzers follow the same     *)
(* plan. Seeks and screenshots succeed or fail per analyzer and point.     *)
(***************************************************************************)
PlanPoints == 1..MaxPlanPoints

\* fs.writeFile(filepath, screenshot): fails when the directory is missing
WriteFile(files, exists, k) == IF exists THEN files \cup {k} ELSE files

\* optimizeCaptures: a frame whose file does not exist is left out
Optimized(frameSet, files) == {k \in frameSet : k \in files}

\* the constructor: ensureCaptureDir()
TwBegin(a) ==
  /\ UNCHANGED <<sessVars, batchVars, cacheVars, wsVars, apiVars, planVars, runVars, closeVars, reuseVars, capVars, optVars, hdVars, confVars, multiVars, subVars, settingsVars>>
  /\ twPc[a] = "idle"
  /\ twPc' = [twPc EXCEPT ![a] = "capture"]
  /\ dirExists' = TRUE
  /\ UNCHANGED <<twIdx, twTried, twOwn, twFrames, twKept, twOutcome, dirFiles>>

\* captureAtTimestamp: how the attempt at one point ends. Every outcome but
\* "ok" is an Error thrown out of captureAtTimestamp
PointResults == {"ok", "no duration", "seek failed", "not stable", "screenshot failed"}

\* the for loop of captureFrames without its inner try: the Error leaves the
\* loop for the outer catch, which returns the frames gathered so far
LoopLeftOnError(k, r) == IF r = "ok" THEN k ELSE MaxPlanPoints

\* the for loop of captureFrames: the points consumed once point k ended with
\* r; the inner catch logs the Error and continues with the next point
PointsConsumed(k, r) == k

\* captureFrames: the next point of the plan; a point whose seek, wait,
\* screenshot or file write fails is skipped
TwCapturePoint(a, r) ==
  /\ UNCHANGED <<sessVars, batchVars, cacheVars, wsVars, apiVars, planVars, runVars, closeVars, reuseVars, capVars, optVars, hdVars, confVars, multiVars, subVars, settingsVars>>
  /\ twPc[a] = "capture"
  /\ LET k == twIdx[a] + 1
         ok == r = "ok"
     IN /\ twIdx' = [twIdx EXCEPT ![a] = PointsConsumed(k, r)]
        /\ twTried' = [twTried EXCEPT ![a] = Append(@, k)]
        /\ twOwn' = [twOwn EXCEPT ![a] = IF ok THEN @ \cup {k} ELSE @]
        /\ dirFiles' = IF ok THEN WriteFile(dirFiles, dirExists, k) ELSE dirFiles
        /\ twFrames' = [twFrames EXCEPT ![a] = IF ok /\ dirExists THEN @ \cup {k} ELSE @]
        /\ twPc' = [twPc EXCEPT ![a] =
                      IF PointsConsumed(k, r) = MaxPlanPoints THEN "optimize" ELSE "capture"]
  /\ UNCHANGED <<twKept, twOutcome, dirExists>>

\* optimizeCaptures, then analyze()'s test for zero frames
TwOptimize(a) ==
  /\ UNCHANGED <<sessVars, batchVars, cacheVars, wsVars, apiVars, planVars, runVars, closeVars, reuseVars, capVars, optVars, hdVars, confVars, multiVars, subVars, settingsVars>>
  /\ twPc[a] = "optimize"
  /\ twKept' = [twKept EXCEPT ![a] = Optimized(twFrames[a], dirFiles)]
  /\ twPc' = [twPc EXCEPT ![a] =
                IF Optimized(twFrames[a], dirFiles) = {} THEN "cleanup" ELSE "analyze"]
  /\ UNCHANGED <<twIdx, twTried, twOwn, twFrames, twOutcome, dirExists, dirFiles>>

\* analysis and output of the kept frames (the endpoint answering)
TwAnalyze(a) ==
  /\ UNCHANGED <<sessVars, batchVars, cacheVars, wsVars, apiVars, planVars, runVars, closeVars, reuseVars, capVars, optVars, hdVars, confVars, multiVars, subVars, settingsVars>>
  /\ twPc[a] = "analyze"
  /\ twPc' = [twPc EXCEPT ![a] = "cleanup"]
  /\ UNCHANGED <<twIdx, twTried, twOwn, twFrames, twKept, twOutcome, dirExists, dirFiles>>

\* cleanup(): fs.remove(captureDir), then analyze() returns
TwCleanup(a) ==
  /\ UNCHANGED <<sessVars, batchVars, cacheVars, wsVars, apiVars, planVars, runVars, closeVars, reuseVars, capVars, optVars, hdVars, confVars, multiVars, subVars, settingsVars>>
  /\ twPc[a] = "cleanup"
  /\ dirExists' = FALSE /\ dirFiles' = {}
  /\ twOutcome' = [twOutcome EXCEPT ![a] = IF twKept[a] = {} THEN "failure" ELSE "success"]
  /\ twPc' = [twPc EXCEPT ![a] = "done"]
  /\ UNCHANGED <<twIdx, twTried, twOwn, twFrames, twKept>>

TwoNext ==
  \/ \E a \in Analyzers : TwBegin(a)
  \/ \E a \in Analyzers, r \in PointResults : TwCapturePoint(a, r)
  \/ \E a \in Analyzers : TwOptimize(a)
  \/ \E a \in Analyzers : TwAnalyze(a)
  \/ \E a \in Analyzers : TwCleanup(a)

SpecTwo == Init /\ [][TwoNext]_vars

\* C19: what an analyzer captures, keeps and returns is decided by its own
\* seeks and screenshots alone, whatever the other analyzer does.
C19_SessionsIndependent ==
  \A a \in Analyzers :
    /\ twPc[a] \in {"optimize", "analyze", "cleanup", "done"} => twFrames[a] = twOwn[a]
    /\ twPc[a] \in {"analyze", "done"} => twKept[a] = twOwn[a]
    /\ twOutcome[a] = "failure" => twOwn[a] = {}

Durations == {0, 5, 20, 100, 120, 300, 302, 450, 900}
VideoInfos == {NoInfo} \cup {[known |-> TRUE, duration |-> d] : d \in Durations}

PlanPrompts == {Null, "summarize this video", "Give me an OVERVIEW",
                "summarize the timeline", "show the timeline",
                "explain the code", "list the slides", "teaching methods",
                "what happens"}

\* userPrompt.toLowerCase(): the keywords of createBasePlan and of
\* detectSynthesisType that occur in it
Lowered(p) ==
  CASE p = "summarize this video" -> {"summarize"}
    [] p = "Give me an OVERVIEW" -> {"overview"}
    [] p = "summarize the timeline" -> {"summarize", "timeline"}
    [] p = "show the timeline" -> {"timeline"}
    [] p = "explain the code" -> {"code"}
    [] p = "list the slides" -> {"list", "slide"}
    [] p = "teaching methods" -> {"teaching"}
    [] OTHER -> {}
Includes(p, kw) == kw \in Lowered(p)

\* videoInfo?.duration || 300
DefaultDuration == 300
Duration(v) == IF v.known /\ v.duration # 0 THEN v.duration ELSE DefaultDuration

Max(a, b) == IF a >= b THEN a ELSE b
Timestamp(v) == [type |-> "timestamp", value |-> v]
Event(d) == [type |-> "event", description |-> d]

\* createSummaryCapturePlan closing as the comprehensive plan does, 10 s
\* before the end
SummaryClosingTen(d) ==
  [strategy |-> "summary",
   capturePoints |-> <<Timestamp(0), Timestamp(d * 20), Timestamp(d * 50),
                       Timestamp(d * 80),
                       Timestamp(Max((d - 10) * 100, d * 95))>>]

\* createSummaryCapturePlan
SummaryPlan(d) ==
  [strategy |-> "summary",
   capturePoints |-> <<Timestamp(0), Timestamp(d * 20), Timestamp(d * 50),
                       Timestamp(d * 80),
                       Timestamp(Max((d - 30) * 100, d * 95))>>]

\* An IEEE 754 double that is below 1024 and a multiple of 2^-48 (every sum
\* of the timeline loop for the durations above is): hi * 2^29 + lo, in
\* units of 2^-48
Limb == 536870912
Dbl(hi, lo) == [hi |-> hi, lo |-> lo]
FromInt(n) == Dbl(n * 524288, 0)
Less(a, b) == a.hi < b.hi \/ (a.hi = b.hi /\ a.lo < b.lo)

\* units of 2^-48 in one unit in the last place (53-bit significand) of a
\* double whose high limb is hi
Ulp(hi) == IF hi >= 268435456 THEN 32
           ELSE IF hi >= 134217728 THEN 16
           ELSE IF hi >= 67108864 THEN 8
           ELSE IF hi >= 33554432 THEN 4
           ELSE IF hi >= 16777216 THEN 2
           ELSE 1

\* round-to-nearest, ties to even, of hi * 2^29 + lo + num/den (num < den)
RoundNearest(hi, lo, num, den) ==
  LET u == Ulp(hi)
      r == lo % u
      down == lo - r
      twice == 2 * (r * den + num)
      up == twice > u * den \/ (twice = u * den /\ (down \div u) % 2 = 1)
      l2 == IF up THEN down + u ELSE down
  IN IF l2 >= Limb THEN Dbl(hi + 1, l2 - Limb) ELSE Dbl(hi, l2)

\* a + b in double arithmetic
Add(a, b) ==
  LET s == a.lo + b.lo
      hi == a.hi + b.hi + (IF s >= Limb THEN 1 ELSE 0)
      lo == IF s >= Limb THEN s - Limb ELSE s
  IN RoundNearest(hi, lo, 0, 1)

\* n / 10 in double arithmetic, for a whole n of 160 or more
DivTen(n) ==
  LET h0 == n * 524288
      qh == h0 \div 10
      rm == h0 % 10
      ql == rm * 53687091 + (2 * rm) \div 10
      rr == (2 * rm) % 10
  IN RoundNearest(qh, ql, rr, 10)

\* Math.max(30, duration / 10)
Interval(d) == IF d <= 300 THEN FromInt(30) ELSE DivTen(d)

\* for (let time = 0; time < duration; time += interval) push(time)
RECURSIVE TimelineLoop(_, _, _, _)
TimelineLoop(time, d, interval, points) ==
  IF Less(time, FromInt(d))
  THEN TimelineLoop(Add(time, interval), d, interval, Append(points, Timestamp(time)))
  ELSE points

\* createTimelineCapturePlan
TimelinePlan(d) ==
  [strategy |-> "timeline",
   capturePoints |-> TimelineLoop(FromInt(0), d, Interval(d), <<>>)]

\* createCodeCapturePlan
CodePlan(d) ==
  [strategy |-> "code_focused",
   capturePoints |-> <<Event("code editor or IDE visible"), Timestamp(d * 25),
                       Timestamp(d * 50), Timestamp(d * 75),
                       Event("terminal or console output")>>]

\* createSlideCapturePlan
SlidePlan(d) ==
  [strategy |-> "slide_transitions",
   capturePoints |-> <<Event("slide transition detected")>>]

\* createEducationalCapturePlan
EducationalPlan(d) ==
  [strategy |-> "educational",
   capturePoints |-> <<Timestamp(0), Timestamp(d * 15), Timestamp(d * 35),
                       Timestamp(d * 55), Timestamp(d * 75), Timestamp(d * 90)>>]

\* createComprehensiveCapturePlan closing 10 s before the end whatever the
\* duration is
ComprehensiveClosingUnclamped(d) ==
  [strategy |-> "comprehensive",
   capturePoints |-> <<Timestamp(0), Timestamp(d * 20), Timestamp(d * 40),
                       Timestamp(d * 60), Timestamp(d * 80),
                       Timestamp((d - 10) * 100)>>]

\* createComprehensiveCapturePlan
ComprehensivePlan(d) ==
  [strategy |-> "comprehensive",
   capturePoints |-> <<Timestamp(0), Timestamp(d * 20), Timestamp(d * 40),
                       Timestamp(d * 60), Timestamp(d * 80),
                       Timestamp(Max((d - 10) * 100, d * 95))>>]

\* createSimpleFallbackPlan
FallbackPlan(v) ==
  [strategy |-> "fallback",
   capturePoints |-> <<Timestamp(0), Timestamp(Duration(v) * 50),
                       Timestamp(Duration(v) * 90)>>]

\* createBasePlan, for a prompt that is a string
BasePlan(v, p) ==
  LET d == Duration(v)
  IN IF Includes(p, "summarize") \/ Includes(p, "overview") THEN SummaryPlan(d)
     ELSE IF Includes(p, "timeline") \/ Includes(p, "progression") THEN TimelinePlan(d)
     ELSE IF Includes(p, "code") \/ Includes(p, "programming") THEN CodePlan(d)
     ELSE IF Includes(p, "slide") \/ Includes(p, "presentation") THEN SlidePlan(d)
     ELSE IF Includes(p, "teaching") \/ Includes(p, "educational") THEN EducationalPlan(d)
     ELSE ComprehensivePlan(d)

\* determineCapturePlan with its catch left out: the plan is made although
\* the recommendation failed, and a prompt without toLowerCase gives none
PlanUncaught(v, p, aiOk) == IF p = Null THEN NoPlan ELSE BasePlan(v, p)

\* determineCapturePlan once agent.ai settled: the base plan, or, when
\* agent.ai rejected or createBasePlan threw (userPrompt.toLowerCase on a
\* prompt that is no string), the plan of the catch
PlanFor(v, p, aiOk) ==
  IF aiOk /\ p # Null THEN BasePlan(v, p) ELSE FallbackPlan(v)

\* determineCapturePlan is called and awaits agent.ai
DeterminePlan(v, p) ==
  /\ UNCHANGED <<sessVars, batchVars, cacheVars, wsVars, apiVars, twoVars, runVars, closeVars, reuseVars, capVars, optVars, hdVars, confVars, multiVars, subVars, settingsVars>>
  /\ plPc = "idle"
  /\ plPc' = "asking" /\ plInfo' = v /\ plPrompt' = p
  /\ UNCHANGED plPlan

\* agent.ai settled; determineCapturePlan returns
PlanSettled(aiOk) ==
  /\ UNCHANGED <<sessVars, batchVars, cacheVars, wsVars, apiVars, twoVars, runVars, closeVars, reuseVars, capVars, optVars, hdVars, confVars, multiVars, subVars, settingsVars>>
  /\ plPc = "asking"
  /\ plPlan' = PlanFor(plInfo, plPrompt, aiOk)
  /\ plPc' = IF aiOk THEN "planned" ELSE "planned after failure"
  /\ UNCHANGED <<plInfo, plPrompt>>

PlanNext ==
  \/ \E v \in VideoInfos, p \in PlanPrompts : DeterminePlan(v, p)
  \/ \E aiOk \in BOOLEAN : PlanSettled(aiOk)

SpecPlan == Init /\ [][PlanNext]_vars

Planned == plPc \in {"planned", "planned after failure"}
Points == plPlan.capturePoints
Values == [i \in 1..Len(Points) |-> Points[i].value]

\* C21: determineCapturePlan always returns a plan with at least one capture
\* point; when the planning call failed the plan is the fallback plan with
\* three timestamp points (start, middle, end); with no duration known a plan
\* is returned all the same.
C21_PlanNeverFails ==
  Planned =>
    /\ Len(Points) >= 1
    /\ plPc = "planned after failure" =>
         /\ plPlan.strategy = "fallback"
         /\ Len(Points) = 3
         /\ \A i \in 1..3 : Points[i].type = "timestamp"
         /\ Values[1] = 0 /\ Values[1] < Values[2] /\ Values[2] < Values[3]
         /\ Values[3] <= Duration(plInfo) * 100

\* the planning call failed for a video of unknown duration
C21_Witness_FallbackWithoutDuration ==
  plPc = "planned after failure" /\ plInfo = NoInfo /\ Len(Points) = 3

\* C22: a summary plan for duration d has exactly 5 timestamp points, at 0,
\* 20% of d, 50% of d, 80% of d and the larger of 95% of d and d - 30, in
\* that order; for d = 300 they are 0, 60, 150, 240 and 285 seconds.
C22_SummaryPoints ==
  (Planned /\ plPlan.strategy = "summary") =>
    LET d == Duration(plInfo) * 100
    IN /\ Len(Points) = 5
       /\ \A i \in 1..5 : Points[i].type = "timestamp"
       /\ Values[1] = 0
       /\ 5 * Values[2] = d
       /\ 2 * Values[3] = d
       /\ 5 * Values[4] = 4 * d
       /\ 20 * Values[5] >= 19 * d /\ Values[5] >= d - 3000
       /\ (20 * Values[5] = 19 * d \/ Values[5] = d - 3000)
       /\ \A i \in 1..4 : Values[i] <= Values[i + 1]
       /\ d = 30000 => Values = <<0, 6000, 15000, 24000, 28500>>

\* a summary plan was made for a video of 300 s
C22_Witness_SummaryOfFiveMinutes ==
  /\ plPc = "planned" /\ plPlan.strategy = "summary"
  /\ plInfo = [known |-> TRUE, duration |-> 300] /\ Values[5] = 28500

\* C23: a timeline plan for duration d starts at 0, its points are spaced
\* max(30, d/10) seconds apart, all lie below d and there are at most 10 of
\* them; for d = 100 they are 0, 30, 60 and 90 seconds.
C23_TimelinePoints ==
  (Planned /\ plPlan.strategy = "timeline") =>
    LET d == Duration(plInfo)
    IN /\ Values[1] = FromInt(0)
       /\ \A i \in 1..Len(Points) : Less(Values[i], FromInt(d))
       /\ \A i \in 1..(Len(Points) - 1) : Values[i + 1] = Add(Values[i], Interval(d))
       /\ Len(Points) <= 10
       /\ d = 100 => Values = <<FromInt(0), FromInt(30), FromInt(60), FromInt(90)>>


(***************************************************************************)
(* One session from player detection to the last update of startAnalysis,  *)
(* with the plan determineCapturePlan makes for its prompt and duration.   *)
(* Navigation and detection are one step here; the plans of the prompts    *)
(* below have timestamp points only.                                       *)
(***************************************************************************)
RunPrompts == {"summarize this video", "what happens"}
RunInfos == {NoInfo, [known |-> TRUE, duration |-> 120]}
ThemeSections == 0..MaxThemeSections

\* detectSynthesisType
SynthesisType(p) ==
  IF Includes(p, "summarize") \/ Includes(p, "summary") THEN "summary"
  ELSE IF Includes(p, "extract") \/ Includes(p, "list") THEN "extraction"
  ELSE IF Includes(p, "evaluate") \/ Includes(p, "assess") THEN "evaluation"
  ELSE IF Includes(p, "timeline") \/ Includes(p, "timestamp") THEN "timeline"
  ELSE IF Includes(p, "report") THEN "report"
  ELSE IF Includes(p, "notes") \/ Includes(p, "study") THEN "study_notes"
  ELSE "comprehensive"

\* extractKeyThemes keeping every theme it found
AllThemes(sections) == sections
\* extractKeyThemes: the number of themes returned for a synthesis text with
\* the given number of sections that name a theme: themes.slice(0, 3)
KeyThemes(sections) == Min(sections, 3)

\* the catch block of analyze(): { success: false, error, userPrompt }
RunFailure(message) == [NoResults EXCEPT !.error = message]

\* startAnalysis up to analyzeFromPrompt, then analyze() steps 1 and 2:
\* navigation and player detection settled, then getVideoInformation
RunBegin(p, v, ok) ==
  /\ UNCHANGED <<sessVars, batchVars, cacheVars, wsVars, apiVars, twoVars, planVars, closeVars, reuseVars, capVars, optVars, hdVars, confVars, multiVars, subVars, settingsVars>>
  /\ rnPc = "idle"
  /\ rnPrompt' = p /\ rnStatus' = "navigating"
  /\ IF ok
     THEN rnInfo' = v /\ rnPc' = "plan" /\ UNCHANGED <<rnResults, rnFaults>>
     ELSE /\ rnInfo' = NoInfo /\ rnPc' = "cleanup"
          /\ rnResults' = RunFailure("Navigation failed")
          /\ rnFaults' = rnFaults \cup {"navigation"}
  /\ UNCHANGED <<rnPlan, rnIdx, rnFrames, rnAnalyses, rnSynthesis>>

\* performAdaptiveCapture: determineCapturePlan settled
RunPlan(aiOk) ==
  /\ UNCHANGED <<sessVars, batchVars, cacheVars, wsVars, apiVars, twoVars, planVars, closeVars, reuseVars, capVars, optVars, hdVars, confVars, multiVars, subVars, settingsVars>>
  /\ rnPc = "plan"
  /\ rnPlan' = PlanFor(rnInfo, rnPrompt, aiOk)
  /\ rnFaults' = IF aiOk THEN rnFaults ELSE rnFaults \cup {"planning"}
  /\ rnPc' = "capture"
  /\ UNCHANGED <<rnPrompt, rnInfo, rnIdx, rnFrames, rnAnalyses, rnSynthesis,
                 rnResults, rnStatus>>

\* captureFrames: the next point of the plan, numbered by captureCount;
\* after the last point optimizeCaptures, and analyze() step 3 throws when
\* no frame was captured
RunCapture(r) ==
  /\ UNCHANGED <<sessVars, batchVars, cacheVars, wsVars, apiVars, twoVars, planVars, closeVars, reuseVars, capVars, optVars, hdVars, confVars, multiVars, subVars, settingsVars>>
  /\ rnPc = "capture"
  /\ LET k == rnIdx + 1
         captured == IF r = "ok"
                     THEN Append(rnFrames, [frameNumber |-> k,
                                            timestamp |-> rnPlan.capturePoints[k].value])
                     ELSE rnFrames
     IN /\ rnIdx' = k
        /\ rnFrames' = captured
        /\ rnFaults' = IF r = "ok" THEN rnFaults ELSE rnFaults \cup {"capture"}
        /\ IF k < Len(rnPlan.capturePoints)
           THEN UNCHANGED <<rnPc, rnResults>>
           ELSE IF captured = <<>>
                THEN /\ rnPc' = "cleanup"
                     /\ rnResults' = RunFailure("No content captured for analysis")
                ELSE rnPc' = "analyze" /\ UNCHANGED rnResults
  /\ UNCHANGED <<rnPrompt, rnInfo, rnPlan, rnAnalyses, rnSynthesis, rnStatus>>

\* analyzeContent: analyzeFrame of the next frame settled
RunAnalyzeFrame(reply) ==
  /\ UNCHANGED <<sessVars, batchVars, cacheVars, wsVars, apiVars, twoVars, planVars, closeVars, reuseVars, capVars, optVars, hdVars, confVars, multiVars, subVars, settingsVars>>
  /\ rnPc = "analyze"
  /\ rnAnalyses' = Append(rnAnalyses, FrameEntry(reply))
  /\ rnFaults' = IF reply = "text" THEN rnFaults ELSE rnFaults \cup {"frame"}
  /\ rnPc' = IF Len(rnAnalyses) + 1 < Len(rnFrames) THEN "analyze" ELSE "synthesize"
  /\ UNCHANGED <<rnPrompt, rnInfo, rnPlan, rnIdx, rnFrames, rnSynthesis,
                 rnResults, rnStatus>>

\* synthesizeResults: nothing valid, or the synthesis call settled with a
\* text that has the given number of theme sections
RunSynthesize(ok, sections) ==
  /\ UNCHANGED <<sessVars, batchVars, cacheVars, wsVars, apiVars, twoVars, planVars, closeVars, reuseVars, capVars, optVars, hdVars, confVars, multiVars, subVars, settingsVars>>
  /\ rnPc = "synthesize"
  /\ IF Len(ValidAnalyses(rnAnalyses)) = 0 \/ ~ok
     THEN /\ rnPc' = "cleanup"
          /\ rnResults' = RunFailure("Analysis failed")
          /\ rnFaults' = rnFaults \cup {"synthesis"}
          /\ UNCHANGED rnSynthesis
     ELSE /\ rnSynthesis' = [synthesisType |-> SynthesisType(rnPrompt),
                             framesSynthesized |-> Len(ValidAnalyses(rnAnalyses)),
                             keyThemes |-> KeyThemes(sections)]
          /\ rnPc' = "output"
          /\ UNCHANGED <<rnResults, rnFaults>>
  /\ UNCHANGED <<rnPrompt, rnInfo, rnPlan, rnIdx, rnFrames, rnAnalyses, rnStatus>>

\* generateOutput settled; on success analyze() has its result
RunOutput(ok) ==
  /\ UNCHANGED <<sessVars, batchVars, cacheVars, wsVars, apiVars, twoVars, planVars, closeVars, reuseVars, capVars, optVars, hdVars, confVars, multiVars, subVars, settingsVars>>
  /\ rnPc = "output"
  /\ rnPc' = "cleanup"
  /\ IF ok
     THEN /\ rnResults' = [success |-> TRUE, error |-> Null,
                           framesAnalyzed |-> Len(rnFrames),
                           frameAnalyses |-> rnAnalyses,
                           synthesizedResult |-> rnSynthesis]
          /\ UNCHANGED rnFaults
     ELSE /\ rnResults' = RunFailure("Output generation failed")
          /\ rnFaults' = rnFaults \cup {"output"}
  /\ UNCHANGED <<rnPrompt, rnInfo, rnPlan, rnIdx, rnFrames, rnAnalyses,
                 rnSynthesis, rnStatus>>

\* cleanup settled, analyze() returns, startAnalysis applies its last update
RunFinish ==
  /\ UNCHANGED <<sessVars, batchVars, cacheVars, wsVars, apiVars, twoVars, planVars, closeVars, reuseVars, capVars, optVars, hdVars, confVars, multiVars, subVars, settingsVars>>
  /\ rnPc = "cleanup"
  /\ rnPc' = "done"
  /\ rnStatus' = IF ~rnResults.success /\ FailureResultThrows
                 THEN FailedUpdate(rnResults.error).status
                 ELSE CompletedUpdate(rnResults).status
  /\ UNCHANGED <<rnPrompt, rnInfo, rnPlan, rnIdx, rnFrames, rnAnalyses,
                 rnSynthesis, rnFaults, rnResults>>

RunNext ==
  \/ \E p \in RunPrompts, v \in RunInfos, ok \in BOOLEAN : RunBegin(p, v, ok)
  \/ \E aiOk \in BOOLEAN : RunPlan(aiOk)
  \/ \E r \in PointResults : RunCapture(r)
  \/ \E reply \in FrameReplies : RunAnalyzeFrame(reply)
  \/ \E ok \in BOOLEAN, sections \in ThemeSections : RunSynthesize(ok, sections)
  \/ \E ok \in BOOLEAN : RunOutput(ok)
  \/ RunFinish

SpecRun == Init /\ [][RunNext]_vars

AnalyzerKinds == {"learning", "agnostic"}
ClientStates == {"none", "open"}
Strategies == {"none", "shipped", "replaced"}
CacheEntries == {-1, 0, 1}

\* how captureStrategy.cleanup() settles: the shipped strategies catch the
\* error of fs.remove; the replaced one rejects
CleanupOutcomes(strategy) ==
  IF strategy = "shipped" THEN {"removed", "remove failed"} ELSE {"rejected"}

\* close() from the test of this.captureStrategy on, as far as it runs
\* without waiting
AfterClient(strategy) == IF strategy = "none" THEN "finish" ELSE "cleanup"

\* an analyzer in some state of initialization, with or without captures
CloseSetup(kind, client, strategy, files, cached) ==
  /\ UNCHANGED <<sessVars, batchVars, cacheVars, wsVars, apiVars, twoVars, planVars, runVars, reuseVars, capVars, optVars, hdVars, confVars, multiVars, subVars, settingsVars>>
  /\ clPc = "idle"
  /\ clPc' = "ready" /\ clKind' = kind /\ clClient' = client
  /\ clStrategy' = strategy
  /\ clFiles' = (files /\ strategy = "shipped")
  /\ clCache' = IF kind = "agnostic" THEN cached ELSE -1

\* close() is called and runs to its first await
CloseBegin ==
  /\ UNCHANGED <<sessVars, batchVars, cacheVars, wsVars, apiVars, twoVars, planVars, runVars, reuseVars, capVars, optVars, hdVars, confVars, multiVars, subVars, settingsVars>>
  /\ clPc = "ready"
  /\ clPc' = IF clClient = "open" THEN "client" ELSE AfterClient(clStrategy)
  /\ UNCHANGED <<clKind, clClient, clStrategy, clFiles, clCache>>

\* midsceneClient.close() settled: it catches its own errors
CloseClient(ok) ==
  /\ UNCHANGED <<sessVars, batchVars, cacheVars, wsVars, apiVars, twoVars, planVars, runVars, reuseVars, capVars, optVars, hdVars, confVars, multiVars, subVars, settingsVars>>
  /\ clPc = "client"
  /\ clClient' = IF ok THEN "closed" ELSE clClient
  /\ clPc' = AfterClient(clStrategy)
  /\ UNCHANGED <<clKind, clStrategy, clFiles, clCache>>

\* captureStrategy.cleanup() settled; a rejection leaves close() at the await
CloseCleanup(how) ==
  /\ UNCHANGED <<sessVars, batchVars, cacheVars, wsVars, apiVars, twoVars, planVars, runVars, reuseVars, capVars, optVars, hdVars, confVars, multiVars, subVars, settingsVars>>
  /\ clPc = "cleanup"
  /\ how \in CleanupOutcomes(clStrategy)
  /\ clFiles' = IF how = "removed" THEN FALSE ELSE clFiles
  /\ clPc' = IF how = "rejected" THEN "threw" ELSE "finish"
  /\ UNCHANGED <<clKind, clClient, clStrategy, clCache>>

\* the rest of close(): analyzer.clearCache() (ContentAgnosticVideoAnalyzer)
CloseFinish ==
  /\ UNCHANGED <<sessVars, batchVars, cacheVars, wsVars, apiVars, twoVars, planVars, runVars, reuseVars, capVars, optVars, hdVars, confVars, multiVars, subVars, settingsVars>>
  /\ clPc = "finish"
  /\ clCache' = IF clCache > 0 THEN 0 ELSE clCache
  /\ clPc' = "closed"
  /\ UNCHANGED <<clKind, clClient, clStrategy, clFiles>>

CloseNext ==
  \/ \E kind \in AnalyzerKinds, client \in ClientStates, strategy \in Strategies,
        files \in BOOLEAN, cached \in CacheEntries :
        CloseSetup(kind, client, strategy, files, cached)
  \/ CloseBegin
  \/ \E ok \in BOOLEAN : CloseClient(ok)
  \/ \E how \in {"removed", "remove failed", "rejected"} : CloseCleanup(how)
  \/ CloseFinish

SpecClose == Init /\ [][CloseNext]_vars

\* C25: close() of an analyzer never throws, whatever way the cleanup of the
\* captured files ends.
C25_CloseNeverThrows == clPc # "threw"


(***************************************************************************)
(* One DynamicAnalyzer analysing the frames of several videos, one frame   *)
(* after the other (analyzeContent awaits every analyzeFrame).             *)
(***************************************************************************)
\* the first two frames of the summary plans of a 120 s and a 300 s video:
\* adaptive_frame_1_0s.png and adaptive_frame_2_24s.png of the first,
\* adaptive_frame_1_0s.png and adaptive_frame_2_60s.png of the second
ReuseFrames ==
  {[video |-> 1, number |-> 1, seconds |-> 0],
   [video |-> 1, number |-> 2, seconds |-> 24],
   [video |-> 2, number |-> 1, seconds |-> 0],
   [video |-> 2, number |-> 2, seconds |-> 60]}

\* prompts as their char codes: "Aa", "BB" and "C"
ReusePrompts == {<<65, 97>>, <<66, 66>>, <<67>>}

\* frame.filename: adaptive_frame_<frameNumber>_<Math.round(value)>s.png
FileName(frame) == <<frame.number, frame.seconds>>

\* ((hash << 5) - hash) + char, then hash & hash: 31 * hash + char wrapped
\* to a signed 32-bit integer, computed on 16-bit halves
HashStep(hash, char) ==
  LET a == hash \div 65536
      b == hash % 65536
      t == 31 * b + char
      lo == t % 65536
      hi == (31 * a + t \div 65536) % 65536
  IN (IF hi >= 32768 THEN hi - 65536 ELSE hi) * 65536 + lo

RECURSIVE HashFrom(_, _, _)
HashFrom(hash, userPrompt, i) ==
  IF i > Len(userPrompt) THEN hash ELSE HashFrom(HashStep(hash, userPrompt[i]), userPrompt, i + 1)

\* hashPrompt
HashPrompt(userPrompt) == HashFrom(0, userPrompt, 1)

\* cacheKey = `${frame.filename}_${this.hashPrompt(userPrompt)}`
ReuseKey(frame, userPrompt) == <<FileName(frame), HashPrompt(userPrompt)>>

\* config.cache.enabled: ENABLE_CACHE is true when the process starts
ReuseEnable ==
  /\ UNCHANGED <<sessVars, batchVars, cacheVars, wsVars, apiVars, twoVars, planVars, runVars, closeVars, capVars, optVars, hdVars, confVars, multiVars, subVars, settingsVars>>
  /\ ruLast = NoCall /\ ruCache = <<>> /\ ~ruEnabled
  /\ ruEnabled' = TRUE
  /\ UNCHANGED <<ruCache, ruLast>>

\* analyzeFrame(frame, userPrompt): a hit returns the stored analysis; else
\* the endpoint is asked and, when it answered, the result is stored
ReuseAnalyzeFrame(frame, userPrompt, ok) ==
  /\ UNCHANGED <<sessVars, batchVars, cacheVars, wsVars, apiVars, twoVars, planVars, runVars, closeVars, capVars, optVars, hdVars, confVars, multiVars, subVars, settingsVars>>
  /\ LET key == ReuseKey(frame, userPrompt)
         own == [frame |-> frame, prompt |-> userPrompt]
     IN IF ruEnabled /\ key \in DOMAIN ruCache
        THEN /\ ruLast' = [frame |-> frame, prompt |-> userPrompt, hit |-> TRUE,
                           from |-> ruCache[key]]
             /\ UNCHANGED ruCache
        ELSE /\ ruLast' = [frame |-> frame, prompt |-> userPrompt, hit |-> FALSE,
                           from |-> own]
             /\ ruCache' = IF ruEnabled /\ ok
                           THEN [k \in DOMAIN ruCache \cup {key} |->
                                   IF k = key THEN own ELSE ruCache[k]]
                           ELSE ruCache
  /\ UNCHANGED ruEnabled

\* clearCache(), called by close()
ReuseClearCache ==
  /\ UNCHANGED <<sessVars, batchVars, cacheVars, wsVars, apiVars, twoVars, planVars, runVars, closeVars, capVars, optVars, hdVars, confVars, multiVars, subVars, settingsVars>>
  /\ ruCache # <<>>
  /\ ruCache' = <<>>
  /\ UNCHANGED <<ruEnabled, ruLast>>

ReuseNext ==
  \/ ReuseEnable
  \/ \E frame \in ReuseFrames, userPrompt \in ReusePrompts, ok \in BOOLEAN :
        ReuseAnalyzeFrame(frame, userPrompt, ok)
  \/ ReuseClearCache

SpecReuse == Init /\ [][ReuseNext]_vars

\* C27: an analysis returned from the cache was computed from the frame and
\* the prompt of the current request.
C27_HitSameFrameAndPrompt ==
  ruLast.hit => (ruLast.from.frame = ruLast.frame /\ ruLast.from.prompt = ruLast.prompt)


(***************************************************************************)
(* captureFrames for the plans of every strategy: timestamp points, event  *)
(* points and, for slide_transitions, captureSlideTransitions. The video   *)
(* sampled for slides is 10 * MaxSlideSamples seconds long.                *)
(***************************************************************************)
CaptureInfo == [known |-> TRUE, duration |-> 120]

\* captureOnEvent: the agent says CAPTURE_NOW and the screenshot is taken,
\* the agent says something else (null is returned), or an Error
EventResults == {"ok", "not ready", "agent failed", "screenshot failed"}

\* the frame captureAtTimestamp / captureOnEvent returns for point k
PointFrame(point, k) ==
  [frameNumber |-> k,
   context |-> IF point.type = "timestamp" THEN "adaptive_timestamp" ELSE "adaptive_event"]

\* the frame captureSlideTransitions pushes for a slide found at time
SlideFrame(n, time) ==
  [slideNumber |-> n, timestamp |-> time, context |-> "slide_transition"]

\* sampleInterval
SampleInterval == 10

\* captureFrames is called with a plan of determineCapturePlan
CaptureBegin(p, aiOk) ==
  /\ UNCHANGED <<sessVars, batchVars, cacheVars, wsVars, apiVars, twoVars, planVars, runVars, closeVars, reuseVars, optVars, hdVars, confVars, multiVars, subVars, settingsVars>>
  /\ cpPc = "idle"
  /\ cpPlan' = PlanFor(CaptureInfo, p, aiOk)
  /\ cpPc' = "points"
  /\ UNCHANGED <<cpIdx, cpFrames, cpSample, cpSlides, cpPrev, cpAnswer>>

\* the next point of the plan settled; after the last one the slide
\* transitions are captured if the strategy asks for them
CaptureNextPoint(r) ==
  /\ UNCHANGED <<sessVars, batchVars, cacheVars, wsVars, apiVars, twoVars, planVars, runVars, closeVars, reuseVars, optVars, hdVars, confVars, multiVars, subVars, settingsVars>>
  /\ cpPc = "points"
  /\ LET k == cpIdx + 1
         point == cpPlan.capturePoints[k]
     IN /\ r \in (IF point.type = "timestamp" THEN PointResults ELSE EventResults)
        /\ cpIdx' = PointsConsumed(k, r)
        /\ cpFrames' = IF r = "ok" THEN Append(cpFrames, PointFrame(point, k)) ELSE cpFrames
        /\ cpPc' = IF PointsConsumed(k, r) < Len(cpPlan.capturePoints) THEN "points"
                   ELSE IF cpPlan.strategy = "slide_transitions" THEN "slides"
                   ELSE "returned"
  /\ UNCHANGED <<cpPlan, cpSample, cpSlides, cpPrev, cpAnswer>>

\* captureSlideTransitions writing and pushing every sample it took a
\* screenshot of
PersistEveryShot(prev, how) == how \in {"shot", "new slide", "same slide"}

\* captureSlideTransitions: whether the sample is written and pushed. With
\* no previousFrame the screenshot is the first slide; with one, the agent
\* must have answered NEW_SLIDE
Persisted(prev, how) == (how = "shot" /\ ~prev) \/ (how = "new slide" /\ prev)

\* captureSlideTransitions: one sample of the loop. The screenshot fails
\* (continue), or it is the first slide, or the agent compares it with the
\* previous frame; an Error (seek, agent, write) ends the loop with the
\* slides found so far
CaptureSlideSample(how) ==
  /\ UNCHANGED <<sessVars, batchVars, cacheVars, wsVars, apiVars, twoVars, planVars, runVars, closeVars, reuseVars, optVars, hdVars, confVars, multiVars, subVars, settingsVars>>
  /\ cpPc = "slides"
  /\ cpSample' = cpSample + 1
  /\ LET found == Persisted(cpPrev, how)
         number == IF cpPrev THEN cpSlides + 1 ELSE 1
         time == cpSample * SampleInterval
     IN /\ how \in (IF cpPrev THEN {"no shot", "new slide", "same slide", "error"}
                              ELSE {"no shot", "shot", "error"})
        /\ cpSlides' = IF found THEN number ELSE cpSlides
        /\ cpFrames' = IF found THEN Append(cpFrames, SlideFrame(number, time)) ELSE cpFrames
        /\ cpAnswer' = CASE how = "new slide" -> "NEW_SLIDE"
                          [] how = "same slide" -> "SAME_SLIDE"
                          [] OTHER -> "none"
        /\ cpPrev' = (cpPrev \/ how = "shot")
        /\ cpPc' = IF how = "error" \/ cpSample + 1 = MaxSlideSamples
                   THEN "returned" ELSE "slides"
  /\ UNCHANGED <<cpPlan, cpIdx>>

CaptureNext ==
  \/ \E p \in PlanPrompts, aiOk \in BOOLEAN : CaptureBegin(p, aiOk)
  \/ \E r \in PointResults \cup EventResults : CaptureNextPoint(r)
  \/ \E how \in {"no shot", "shot", "new slide", "same slide", "error"} :
        CaptureSlideSample(how)

SpecCapture == Init /\ [][CaptureNext]_vars

\* C29: every frame captureFrames gathers carries a frameNumber of 1 or
\* more, and the frameNumbers increase along the list of frames.
C29_FrameNumbersIncrease ==
  /\ \A i \in 1..Len(cpFrames) :
       "frameNumber" \in DOMAIN cpFrames[i] /\ cpFrames[i].frameNumber >= 1
  /\ \A i \in 1..Len(cpFrames), j \in 1..Len(cpFrames) :
       i < j => cpFrames[i].frameNumber < cpFrames[j].frameNumber


---------------------------------------------------------------------------
\* AdaptiveCapture.optimizeCaptures(frames, strategy)

\* a frame handed to optimizeCaptures: its place in the argument, whether it
\* has a filepath, and its bytes (base64) as captured
CapturedFrame(n, path) == [frameNumber |-> n, filepath |-> path, base64 |-> "captured"]

\* the frames arguments tried: every sequence of up to MaxOptimizeFrames
\* frames, each with or without a filepath
FrameLists ==
  UNION {[1..n -> BOOLEAN] : n \in 0..MaxOptimizeFrames}

\* what happens to one frame inside the try: fs.exists answers false,
\* sharp(...).toBuffer() resolves, or it rejects
FrameResults == {"no file", "resized", "sharp failed"}

\* optimizeCaptures called
OptimizeBegin(paths) ==
  /\ UNCHANGED <<sessVars, batchVars, cacheVars, wsVars, apiVars, twoVars, planVars, runVars, closeVars, reuseVars, capVars, hdVars, confVars, multiVars, subVars, settingsVars>>
  /\ opPc = "idle"
  /\ opFrames' = [i \in DOMAIN paths |-> CapturedFrame(i, paths[i])]
  /\ opPc' = IF Len(paths) = 0 THEN "returned" ELSE "loop"
  /\ UNCHANGED <<opIdx, opOut>>

\* one turn of the for loop: the frame is pushed with the new bytes when it
\* was resized, pushed as it is by the catch when sharp failed, and not
\* pushed when it has no filepath or its file does not exist
OptimizeFrame(r) ==
  /\ UNCHANGED <<sessVars, batchVars, cacheVars, wsVars, apiVars, twoVars, planVars, runVars, closeVars, reuseVars, capVars, hdVars, confVars, multiVars, subVars, settingsVars>>
  /\ opPc = "loop"
  /\ LET frame == opFrames[opIdx + 1]
     IN /\ (~frame.filepath => r = "no file")
        /\ opOut' = CASE r = "resized" -> Append(opOut, [frame EXCEPT !.base64 = "optimized"])
                      [] r = "sharp failed" -> Append(opOut, frame)
                      [] OTHER -> opOut
  /\ opIdx' = opIdx + 1
  /\ opPc' = IF opIdx + 1 = Len(opFrames) THEN "returned" ELSE "loop"
  /\ UNCHANGED opFrames

OptimizeNext ==
  \/ \E paths \in FrameLists : OptimizeBegin(paths)
  \/ \E r \in FrameResults : OptimizeFrame(r)

SpecOptimize == Init /\ [][OptimizeNext]_vars

\* C30: optimizeCaptures returns exactly the frames it was given, in the
\* same order, and a frame that was not optimised keeps its captured bytes
C30_NoFrameDropped ==
  opPc = "returned" =>
    /\ Len(opOut) = Len(opFrames)
    /\ \A i \in 1..Len(opOut) :
         /\ opOut[i].frameNumber = opFrames[i].frameNumber
         /\ opOut[i].base64 \in {"optimized", opFrames[i].base64}

---------------------------------------------------------------------------
\* The three places that classify the intent of a prompt

\* getPromptEnhancements: the family whose guidance is put in the frame prompt
PromptGuidance(p) ==
  IF Includes(p, "summarize") \/ Includes(p, "summary") THEN "summary"
  ELSE IF Includes(p, "extract") \/ Includes(p, "list") \/ Includes(p, "find")
    THEN "extraction"
  ELSE IF Includes(p, "evaluate") \/ Includes(p, "assess") \/ Includes(p, "quality")
    THEN "evaluation"
  ELSE IF Includes(p, "code") \/ Includes(p, "programming") \/ Includes(p, "script")
    THEN "code"
  ELSE IF Includes(p, "teaching") \/ Includes(p, "educational") \/ Includes(p, "learning")
    THEN "educational"
  ELSE "general"

\* C31: a prompt planned by createBasePlan has the summary strategy exactly
\* when detectSynthesisType calls it a summary and exactly when
\* getPromptEnhancements gives the summarization guidance
C31_OneIntentFunction ==
  (plPc = "planned" /\ plPrompt # Null) =>
    /\ (plPlan.strategy = "summary") <=> (SynthesisType(plPrompt) = "summary")
    /\ (plPlan.strategy = "summary") <=> (PromptGuidance(plPrompt) = "summary")

\* C32: whatever the strategy, every timestamp point of the returned plan
\* lies between 0 and the duration the plan was made for.
C32_PointsWithinDuration ==
  Planned =>
    \A i \in 1..Len(Points) :
      Points[i].type = "timestamp" =>
        IF plPlan.strategy = "timeline"
        THEN /\ ~Less(Points[i].value, FromInt(0))
             /\ ~Less(FromInt(Duration(plInfo)), Points[i].value)
        ELSE /\ 0 <= Points[i].value
             /\ Points[i].value <= Duration(plInfo) * 100

\* the comprehensive plan of a 5 s video closes at 4.75 s, not at -5 s
C32_Witness_ShortVideoClosing ==
  /\ plPc = "planned" /\ plPlan.strategy = "comprehensive"
  /\ plInfo = [known |-> TRUE, duration |-> 5]
  /\ Points[6].value = 475

(***************************************************************************)
(* captureFrames on the control interface detectAndControlVideo returns.   *)
(* The plans are those of the prompts below, whose timestamp values are    *)
(* whole hundredths of a second.                                           *)
(***************************************************************************)

\* the control interface returned by detectAndControlVideo
Provided == {"play", "pause", "seek", "setVolume", "getCurrentTime", "getDuration",
             "isPlaying", "getPlayerInfo", "waitForStable"}

\* calling videoHandler[op](...): a property the object does not have is
\* undefined, and calling it throws a TypeError
NotAFunction(op) == op \notin Provided

HandlePrompts == {"summarize this video", "explain the code", "what happens"}
HandleInfos == {NoInfo, [known |-> TRUE, duration |-> 120],
                [known |-> TRUE, duration |-> 300]}
\* what parseTimeToSeconds makes of the duration display at capture time
ShownDurations == {0, 120, 300}

\* (capturePoint.value / videoInfo.duration) * 100, for a value in
\* hundredths of a second: x / 0 is Infinity for x > 0 and NaN for x = 0
Percentage(value, duration) ==
  [kind |-> IF duration # 0 THEN "finite" ELSE IF value = 0 THEN "NaN" ELSE "Infinity",
   value |-> value, duration |-> duration]

\* 0 <= percentage <= 100
WithinPercent(pct) ==
  pct.kind = "finite" /\ 0 <= pct.value /\ pct.value <= pct.duration * 100

\* the inner catch of captureFrames: the Error is logged, the next point
\* follows; after the last point the frames are returned
AfterPoint(k) == IF k < Len(hdPlan.capturePoints) THEN "point" ELSE "returned"

\* captureFrames is called with the plan made for the information
\* getVideoInformation gave
HandleBegin(v, p, aiOk, shown) ==
  /\ UNCHANGED <<sessVars, batchVars, cacheVars, wsVars, apiVars, twoVars, planVars, runVars, closeVars, reuseVars, capVars, optVars, confVars, multiVars, subVars, settingsVars>>
  /\ hdPc = "idle"
  /\ hdPlan' = PlanFor(v, p, aiOk)
  /\ hdNow' = shown
  /\ hdPc' = "point"
  /\ UNCHANGED <<hdIdx, hdSeek, hdFrames, hdErrors>>

\* captureCount++, then captureAtTimestamp up to its seek: getDuration
\* answers and the percentage is computed; or captureOnEvent: the agent
\* answers, and on CAPTURE_NOW the screenshot is asked for
HandlePoint(r) ==
  /\ UNCHANGED <<sessVars, batchVars, cacheVars, wsVars, apiVars, twoVars, planVars, runVars, closeVars, reuseVars, capVars, optVars, confVars, multiVars, subVars, settingsVars>>
  /\ hdPc = "point"
  /\ LET k == hdIdx + 1
         point == hdPlan.capturePoints[k]
     IN /\ hdIdx' = k
        /\ IF point.type = "timestamp"
           THEN /\ r \in {"ok", "no duration"}
                /\ IF r = "ok"
                   THEN /\ hdPc' = "seek"
                        /\ hdSeek' = Percentage(point.value, hdNow)
                        /\ UNCHANGED hdErrors
                   ELSE /\ hdPc' = AfterPoint(k)
                        /\ hdErrors' = hdErrors \cup {"Could not get video duration"}
                        /\ UNCHANGED hdSeek
           ELSE /\ r \in {"CAPTURE_NOW", "WAIT_LONGER", "agent failed"}
                /\ hdPc' = IF r = "CAPTURE_NOW" THEN "screenshot" ELSE AfterPoint(k)
                /\ hdErrors' = IF r = "agent failed"
                               THEN hdErrors \cup {"agent failed"} ELSE hdErrors
                /\ UNCHANGED hdSeek
  /\ UNCHANGED <<hdPlan, hdNow, hdFrames>>

\* videoHandler.seek(percentage) settled, then waitForStable(3000)
HandleSeek(ok) ==
  /\ UNCHANGED <<sessVars, batchVars, cacheVars, wsVars, apiVars, twoVars, planVars, runVars, closeVars, reuseVars, capVars, optVars, confVars, multiVars, subVars, settingsVars>>
  /\ hdPc = "seek"
  /\ hdPc' = IF ok THEN "screenshot" ELSE AfterPoint(hdIdx)
  /\ hdErrors' = IF ok THEN hdErrors ELSE hdErrors \cup {"Seek failed"}
  /\ UNCHANGED <<hdPlan, hdNow, hdIdx, hdSeek, hdFrames>>

\* videoHandler.captureCurrentFrame(), the file write and the return of the
\* frame
HandleScreenshot(ok) ==
  /\ UNCHANGED <<sessVars, batchVars, cacheVars, wsVars, apiVars, twoVars, planVars, runVars, closeVars, reuseVars, capVars, optVars, confVars, multiVars, subVars, settingsVars>>
  /\ hdPc = "screenshot"
  /\ hdPc' = AfterPoint(hdIdx)
  /\ IF NotAFunction("captureCurrentFrame")
     THEN /\ hdErrors' = hdErrors \cup {"captureCurrentFrame is not a function"}
          /\ UNCHANGED hdFrames
     ELSE /\ hdFrames' = IF ok THEN hdFrames + 1 ELSE hdFrames
          /\ hdErrors' = IF ok THEN hdErrors ELSE hdErrors \cup {"Screenshot failed"}
  /\ UNCHANGED <<hdPlan, hdNow, hdIdx, hdSeek>>

HandleNext ==
  \/ \E v \in HandleInfos, p \in HandlePrompts, aiOk \in BOOLEAN, shown \in ShownDurations :
        HandleBegin(v, p, aiOk, shown)
  \/ \E r \in {"ok", "no duration", "CAPTURE_NOW", "WAIT_LONGER", "agent failed"} :
        HandlePoint(r)
  \/ \E ok \in BOOLEAN : HandleSeek(ok)
  \/ \E ok \in BOOLEAN : HandleScreenshot(ok)

SpecHandle == Init /\ [][HandleNext]_vars

\* C33: the percentage of every seek issued for a timestamp point lies
\* between 0 and 100.
C33_SeekWithinPercent ==
  hdSeek # NoSeek => WithinPercent(hdSeek)

\* C34: no capture point fails because the handle lacks an operation the
\* capture calls on it.
C34_HandleComplete ==
  "captureCurrentFrame is not a function" \notin hdErrors

---------------------------------------------------------------------------
\* The slides captureSlideTransitions persisted

SlidesOf(captured) == SelectSeq(captured, LAMBDA f : f.context = "slide_transition")

\* the slides are numbered 1, 2, 3, ... and their timestamps increase
NumberedInOrder ==
  LET slides == SlidesOf(cpFrames)
  IN /\ \A i \in 1..Len(slides) : slides[i].slideNumber = i
     /\ \A i \in 1..(Len(slides) - 1) : slides[i].timestamp < slides[i + 1].timestamp

\* a sample of the slide loop added a frame
SlidePersisted == cpPc = "slides" /\ Len(cpFrames') = Len(cpFrames) + 1

\* C35 as stated: a frame is persisted only when the agent found a
\* transition against the previous sample, and the persisted slides are
\* numbered 1, 2, 3, ... in increasing timestamp order.
C35_OnlyOnTransition ==
  /\ []NumberedInOrder
  /\ [][SlidePersisted => cpAnswer' = "NEW_SLIDE"]_vars

\* C35: the first sample whose screenshot succeeds is persisted as slide 1
\* without asking for a transition; after it a frame is persisted only when
\* the agent found a transition; the persisted slides are numbered 1, 2, 3,
\* ... in increasing timestamp order.
C35_FirstThenOnTransition ==
  /\ []NumberedInOrder
  /\ [][SlidePersisted => (IF cpPrev THEN cpAnswer' = "NEW_SLIDE"
                                     ELSE cpSlides' = 1 /\ cpAnswer' = "none")]_vars

\* slide 1 at 0 s, the same slide at 10 s, slide 2 at 20 s
C35_Witness_SecondSlideAfterSameSlide ==
  /\ cpPc = "returned" /\ cpSlides = 2 /\ cpAnswer = "NEW_SLIDE"
  /\ LET slides == SlidesOf(cpFrames)
     IN Len(slides) = 2 /\ slides[1].timestamp = 0 /\ slides[2].timestamp = 20

(***************************************************************************)
(* DynamicAnalyzer.extractConfidence                                       *)
(***************************************************************************)
\* How an analysis text mentions a percentage: not at all, as
\* "confidence: N%", as "N% confident", or as N% of something else
Mentions == {"none", "confidence: N%", "N% confident", "N% of the frame"}
StatedPercents == {0, 7, 85, 100, 150, 1000}
TextLengths == {40, 100, 101, 200, 201, 900}

\* the analysis texts tried: the percentage N they mention, their length,
\* and whether they contain 'unclear' or 'difficult'
AnalysisTexts ==
  {[mention |-> "none", digits |-> 0, length |-> l, hedged |-> h] :
      l \in TextLengths, h \in BOOLEAN}
  \cup {[mention |-> m, digits |-> n, length |-> l, hedged |-> h] :
      m \in Mentions \ {"none"}, n \in StatedPercents, l \in TextLengths, h \in BOOLEAN}

\* analysisText.match(/confidence[:\s]*(\d+)%|(\d+)%\s*confident/i)
ConfidenceMatches(text) == text.mention \in {"confidence: N%", "N% confident"}

\* extractConfidence
ExtractConfidence(text) ==
  IF ConfidenceMatches(text) THEN text.digits
  ELSE IF text.length > 200 /\ ~text.hedged THEN 85
  ELSE IF text.length > 100 THEN 70
  ELSE 60

\* analyzeFrame got a completion and reads its confidence
ReadConfidence(text) ==
  /\ UNCHANGED <<sessVars, batchVars, cacheVars, wsVars, apiVars, twoVars, planVars, runVars, closeVars, reuseVars, capVars, optVars, hdVars, multiVars, subVars, settingsVars>>
  /\ cfText' = text
  /\ cfConfidence' = ExtractConfidence(text)

ConfidenceNext == \E text \in AnalysisTexts : ReadConfidence(text)

SpecConfidence == Init /\ [][ConfidenceNext]_vars

\* C36: the confidence of a frame analysis lies within 0..100; it is the
\* percentage the text states when it states one, and 85, 70 or 60 otherwise.
C36_ConfidenceWithinRange ==
  cfConfidence # NotExtracted =>
    /\ cfConfidence \in 0..100
    /\ IF ConfidenceMatches(cfText) THEN cfConfidence = cfText.digits
       ELSE cfConfidence \in {85, 70, 60}

---------------------------------------------------------------------------
\* C37: a cancel request (router.delete) for a session that is completed or
\* failed leaves the session in place with its status, results and error,
\* and the results route answers for it as before.
C37_CancelKeepsTerminal ==
  [][\A id \in DOMAIN sessions :
       (/\ response'.op = "delete" /\ response'.id = id
        /\ sessions[id].status \in {"completed", "failed"}) =>
         /\ id \in DOMAIN sessions'
         /\ sessions'[id].status = sessions[id].status
         /\ sessions'[id].results = sessions[id].results
         /\ sessions'[id].error = sessions[id].error
         /\ GetResult(sessions', id).code = 200]_vars

(***************************************************************************)
(* analyzeMultipleVideos on one analyzer: the requests of the batch share  *)
(* its AdaptiveCaptureStrategy and with it the capture directory. Every    *)
(* request has a plan of MaxPlanPoints timestamp points.                   *)
(***************************************************************************)

\* the entry pushed to results for request i: why it failed, if it did, and
\* how many screenshots the player delivered for it
RequestResult(i, cause, shots, written) ==
  [index |-> i, success |-> (cause = "none"), cause |-> cause,
   shots |-> shots, framesAnalyzed |-> written]

\* the loop of analyzeMultipleVideos after results.push
AfterRequest(i) == IF i < mvCount THEN "navigate" ELSE "returned"

\* initialize() (the constructor of the strategy ensured captureDir), then
\* analyzeMultipleVideos is called with n requests
MultiBegin(n) ==
  /\ UNCHANGED <<sessVars, batchVars, cacheVars, wsVars, apiVars, twoVars, planVars, runVars, closeVars, reuseVars, capVars, optVars, hdVars, confVars, subVars, settingsVars>>
  /\ mvPc = "idle"
  /\ mvCount' = n /\ mvIdx' = 1 /\ mvDir' = TRUE
  /\ mvPc' = "navigate"
  /\ UNCHANGED <<mvPoint, mvShots, mvFiles, mvResults>>

\* analyzeFromURL / analyze steps 1 and 2 of request i: navigation and
\* player detection; a failure goes to the catch of analyze(), which cleans
\* up and returns the failure
MultiNavigate(ok) ==
  /\ UNCHANGED <<sessVars, batchVars, cacheVars, wsVars, apiVars, twoVars, planVars, runVars, closeVars, reuseVars, capVars, optVars, hdVars, confVars, subVars, settingsVars>>
  /\ mvPc = "navigate"
  /\ mvPoint' = 0 /\ mvShots' = 0 /\ mvFiles' = {}
  /\ IF ok
     THEN mvPc' = "capture" /\ UNCHANGED <<mvDir, mvIdx, mvResults>>
     ELSE /\ mvDir' = FALSE
          /\ mvResults' = Append(mvResults, RequestResult(mvIdx, "navigation", 0, 0))
          /\ mvIdx' = mvIdx + 1
          /\ mvPc' = AfterRequest(mvIdx)
  /\ UNCHANGED mvCount

\* captureAtTimestamp for the next point: the screenshot is delivered or
\* not; a delivered one is written with fs.writeFile, which fails when
\* captureDir does not exist, and then the point is skipped
MultiCapturePoint(shot) ==
  /\ UNCHANGED <<sessVars, batchVars, cacheVars, wsVars, apiVars, twoVars, planVars, runVars, closeVars, reuseVars, capVars, optVars, hdVars, confVars, subVars, settingsVars>>
  /\ mvPc = "capture"
  /\ mvPoint' = mvPoint + 1
  /\ mvShots' = IF shot THEN mvShots + 1 ELSE mvShots
  /\ mvFiles' = IF shot THEN WriteFile(mvFiles, mvDir, mvPoint + 1) ELSE mvFiles
  /\ mvPc' = IF mvPoint + 1 < MaxPlanPoints THEN "capture" ELSE "analyze"
  /\ UNCHANGED <<mvCount, mvIdx, mvDir, mvResults>>

\* analyze() from its check of captureResult.frames to its return: no
\* frame is an Error; otherwise analysis and output succeed or fail; in
\* every case cleanup() removes captureDir, and the result is pushed
MultiAnalyze(ok) ==
  /\ UNCHANGED <<sessVars, batchVars, cacheVars, wsVars, apiVars, twoVars, planVars, runVars, closeVars, reuseVars, capVars, optVars, hdVars, confVars, subVars, settingsVars>>
  /\ mvPc = "analyze"
  /\ LET cause == IF mvFiles = {} THEN "no frames"
                  ELSE IF ok THEN "none" ELSE "analysis"
     IN mvResults' = Append(mvResults,
                            RequestResult(mvIdx, cause, mvShots, Cardinality(mvFiles)))
  /\ mvDir' = FALSE
  /\ mvIdx' = mvIdx + 1
  /\ mvPc' = AfterRequest(mvIdx)
  /\ UNCHANGED <<mvCount, mvPoint, mvShots, mvFiles>>

MultiNext ==
  \/ \E n \in 1..MaxRequests : MultiBegin(n)
  \/ \E ok \in BOOLEAN : MultiNavigate(ok)
  \/ \E shot \in BOOLEAN : MultiCapturePoint(shot)
  \/ \E ok \in BOOLEAN : MultiAnalyze(ok)

SpecMulti == Init /\ [][MultiNext]_vars

\* C38: the results are one per request, in request order, and a request
\* fails only for its own navigation, its own capture (the player
\* delivered no screenshot) or its own analysis; no delivered screenshot is
\* lost.
C38_RequestsIndependent ==
  /\ Len(mvResults) <= mvCount
  /\ mvPc = "returned" => Len(mvResults) = mvCount
  /\ \A i \in 1..Len(mvResults) :
       /\ mvResults[i].index = i
       /\ mvResults[i].cause = "no frames" => mvResults[i].shots = 0
       /\ mvResults[i].cause \in {"none", "analysis"} =>
            mvResults[i].framesAnalyzed = mvResults[i].shots

(***************************************************************************)
(* WebUI clients, one per session: the client's socket is open, it posts   *)
(* an analysis, reads the session id from the response and subscribes to   *)
(* it, while startAnalysis runs.                                           *)
(***************************************************************************)

\* an event as the client sees it
SessionEvent(type, status) == [type |-> type, status |-> status]

\* broadcastToClients(sessionId, data) for the client's socket: it is sent
\* the data when its ws.sessionId is the session's id, which the subscribe
\* message sets
Received(got, client, events) == IF client = "subscribed" THEN got \cup events ELSE got

\* the events of startAnalysis' catch block
FailureEvents == {SessionEvent("session_update", "failed"), SessionEvent("error", Null)}

\* router.post('/'): createSession, startAnalysis up to its first await
\* (the initializing update), res.json
SubPost(id) ==
  /\ UNCHANGED <<sessVars, batchVars, cacheVars, wsVars, apiVars, twoVars, planVars, runVars, closeVars, reuseVars, capVars, optVars, hdVars, confVars, multiVars, settingsVars>>
  /\ suPc[id] = "idle" /\ suClient[id] = "connected"
  /\ suPc' = [suPc EXCEPT ![id] = "configure"]
  /\ suClient' = [suClient EXCEPT ![id] = "posted"]
  /\ suGot' = [suGot EXCEPT ![id] =
                 Received(suGot[id], suClient[id],
                          {SessionEvent("session_update", "initializing")})]

\* app.js startAnalysis: the response arrived, currentSession is set and the
\* subscribe message is sent
SubResponse(id) ==
  /\ UNCHANGED <<sessVars, batchVars, cacheVars, wsVars, apiVars, twoVars, planVars, runVars, closeVars, reuseVars, capVars, optVars, hdVars, confVars, multiVars, settingsVars>>
  /\ suClient[id] = "posted"
  /\ suClient' = [suClient EXCEPT ![id] = "subscribing"]
  /\ UNCHANGED <<suPc, suGot>>

\* ws.on('message') with the subscribe message: ws.sessionId = data.sessionId
SubSubscribe(id) ==
  /\ UNCHANGED <<sessVars, batchVars, cacheVars, wsVars, apiVars, twoVars, planVars, runVars, closeVars, reuseVars, capVars, optVars, hdVars, confVars, multiVars, settingsVars>>
  /\ suClient[id] = "subscribing"
  /\ suClient' = [suClient EXCEPT ![id] = "subscribed"]
  /\ UNCHANGED <<suPc, suGot>>

\* configure settled: the navigating update, or the catch block
SubConfigured(id, ok) ==
  /\ UNCHANGED <<sessVars, batchVars, cacheVars, wsVars, apiVars, twoVars, planVars, runVars, closeVars, reuseVars, capVars, optVars, hdVars, confVars, multiVars, settingsVars>>
  /\ suPc[id] = "configure"
  /\ suPc' = [suPc EXCEPT ![id] = IF ok THEN "analyze" ELSE "failed"]
  /\ suGot' = [suGot EXCEPT ![id] =
                 Received(suGot[id], suClient[id],
                          IF ok THEN {SessionEvent("session_update", "navigating")}
                          ELSE FailureEvents)]
  /\ UNCHANGED suClient

\* the onStatus callback: the status update and the status event
SubStatus(id, st) ==
  /\ UNCHANGED <<sessVars, batchVars, cacheVars, wsVars, apiVars, twoVars, planVars, runVars, closeVars, reuseVars, capVars, optVars, hdVars, confVars, multiVars, settingsVars>>
  /\ suPc[id] = "analyze" /\ CallbacksWired
  /\ suGot' = [suGot EXCEPT ![id] =
                 Received(suGot[id], suClient[id],
                          {SessionEvent("session_update", st), SessionEvent("status", st)})]
  /\ UNCHANGED <<suPc, suClient>>

\* analyzeFromPrompt settled: the completed update, or the catch block
SubFinish(id, ok) ==
  /\ UNCHANGED <<sessVars, batchVars, cacheVars, wsVars, apiVars, twoVars, planVars, runVars, closeVars, reuseVars, capVars, optVars, hdVars, confVars, multiVars, settingsVars>>
  /\ suPc[id] = "analyze"
  /\ suPc' = [suPc EXCEPT ![id] = IF ok THEN "completed" ELSE "failed"]
  /\ suGot' = [suGot EXCEPT ![id] =
                 Received(suGot[id], suClient[id],
                          IF ok THEN {SessionEvent("session_update", "completed")}
                          ELSE FailureEvents)]
  /\ UNCHANGED suClient

SubscribeNext ==
  \/ \E id \in ApiIds : SubPost(id)
  \/ \E id \in ApiIds : SubResponse(id)
  \/ \E id \in ApiIds : SubSubscribe(id)
  \/ \E id \in ApiIds, ok \in BOOLEAN : SubConfigured(id, ok)
  \/ \E id \in ApiIds, st \in ApiStatuses : SubStatus(id, st)
  \/ \E id \in ApiIds, ok \in BOOLEAN : SubFinish(id, ok)

SpecSubscribe == Init /\ [][SubscribeNext]_vars

\* C39: once the session is completed or failed and the client has
\* subscribed to it, the client has been sent the event of that outcome.
C39_OutcomeReachesSubscriber ==
  \A id \in ApiIds :
    (suClient[id] = "subscribed" /\ suPc[id] \in {"completed", "failed"}) =>
      SessionEvent("session_update", suPc[id]) \in suGot[id]

(***************************************************************************)
(* The settings routes. A settings object is a record of sections, a       *)
(* section a record of fields; a field that is undefined is not in the     *)
(* section's domain. ai.temperature is kept in tenths.                     *)
(***************************************************************************)

\* the analysis section as the WebUI save form sends it (without
\* maxConcurrentAnalyses), and with every field
FormAnalysis(c, s) == [captureIntervals |-> c, frameStrategy |-> s, analysisTimeout |-> 60000]
FullAnalysis(c, s) ==
  [captureIntervals |-> c, maxConcurrentAnalyses |-> 2, analysisTimeout |-> 60000,
   frameStrategy |-> s]
AnalysisSections ==
  {FormAnalysis(c, s) : c \in {0, 8}, s \in {"summary", "fastest"}}
  \cup {FullAnalysis(c, s) : c \in {0, 8}, s \in {"summary"}}

\* the capture section as the save form sends it (without compressionQuality)
FormCapture == [enableScreenshots |-> FALSE, screenshotFormat |-> "jpeg"]

BrowserSections ==
  {[headless |-> FALSE, timeout |-> t, screenshotQuality |-> 90] : t \in {100, 10000}}

\* the request bodies tried: any of the sections analysis, capture and
\* browser, each present or not
Bodies ==
  {<<>>}
  \cup {[analysis |-> a] : a \in AnalysisSections}
  \cup {[capture |-> FormCapture]}
  \cup {[browser |-> b] : b \in BrowserSections}
  \cup {[analysis |-> a, capture |-> FormCapture] : a \in AnalysisSections}
  \cup {[analysis |-> a, browser |-> b] : a \in AnalysisSections, b \in BrowserSections}

\* { ...currentSettings, ...req.body }: a section of the body replaces the
\* section of the same name as a whole
Spread(current, body) ==
  [s \in DOMAIN current \cup DOMAIN body |->
     IF s \in DOMAIN body THEN body[s] ELSE current[s]]

\* a merge that spreads the fields of every section as well
SpreadDeep(current, body) ==
  [s \in DOMAIN current \cup DOMAIN body |->
     IF s \in DOMAIN body /\ s \in DOMAIN current THEN Spread(current[s], body[s])
     ELSE IF s \in DOMAIN body THEN body[s] ELSE current[s]]

\* typeof section[f] !== 'number' || section[f] < least, for fields that
\* hold a number when they are defined
NotNumberAtLeast(section, f, least) == f \notin DOMAIN section \/ section[f] < least

FrameStrategies == {"comprehensive", "summary", "timeline"}

\* validateSettings: the errors it collects
ValidationErrors(settings) ==
  (IF "browser" \in DOMAIN settings
   THEN LET b == settings.browser
        IN (IF "headless" \notin DOMAIN b THEN {"browser.headless"} ELSE {})
           \cup (IF NotNumberAtLeast(b, "timeout", 5000) THEN {"browser.timeout"} ELSE {})
           \cup (IF NotNumberAtLeast(b, "screenshotQuality", 1) \/ b.screenshotQuality > 100
                 THEN {"browser.screenshotQuality"} ELSE {})
   ELSE {})
  \cup
  (IF "analysis" \in DOMAIN settings
   THEN LET a == settings.analysis
        IN (IF NotNumberAtLeast(a, "captureIntervals", 1)
            THEN {"analysis.captureIntervals"} ELSE {})
           \cup (IF NotNumberAtLeast(a, "maxConcurrentAnalyses", 1)
                 THEN {"analysis.maxConcurrentAnalyses"} ELSE {})
           \cup (IF NotNumberAtLeast(a, "analysisTimeout", 10000)
                 THEN {"analysis.analysisTimeout"} ELSE {})
           \cup (IF "frameStrategy" \notin DOMAIN a \/ a.frameStrategy \notin FrameStrategies
                 THEN {"analysis.frameStrategy"} ELSE {})
   ELSE {})
  \cup
  (IF "ai" \in DOMAIN settings
   THEN LET ai == settings.ai
        IN (IF NotNumberAtLeast(ai, "temperature", 0) \/ ai.temperature > 20
            THEN {"ai.temperature"} ELSE {})
           \cup (IF NotNumberAtLeast(ai, "maxTokens", 100) THEN {"ai.maxTokens"} ELSE {})
   ELSE {})

\* router.post('/'): load, merge, validate (400), save (500 when the write
\* failed), answer with the new settings
SettingsUpdate(body, saved) ==
  /\ UNCHANGED <<sessVars, batchVars, cacheVars, wsVars, apiVars, twoVars, planVars, runVars, closeVars, reuseVars, capVars, optVars, hdVars, confVars, multiVars, subVars>>
  /\ LET newSettings == Spread(stSettings, body)
         code == IF ValidationErrors(newSettings) # {} THEN 400
                 ELSE IF ~saved THEN 500 ELSE 200
     IN /\ stSettings' = IF code = 200 THEN newSettings ELSE stSettings
        /\ stLast' = [op |-> "update", body |-> body, code |-> code]

\* router.post('/reset')
SettingsReset(saved) ==
  /\ UNCHANGED <<sessVars, batchVars, cacheVars, wsVars, apiVars, twoVars, planVars, runVars, closeVars, reuseVars, capVars, optVars, hdVars, confVars, multiVars, subVars>>
  /\ stSettings' = IF saved THEN DefaultSettings ELSE stSettings
  /\ stLast' = [op |-> "reset", body |-> <<>>, code |-> IF saved THEN 200 ELSE 500]

SettingsNext ==
  \/ \E body \in Bodies, saved \in BOOLEAN : SettingsUpdate(body, saved)
  \/ \E saved \in BOOLEAN : SettingsReset(saved)

SpecSettings == Init /\ [][SettingsNext]_vars

\* every value the body supplies is one validateSettings accepts for its
\* field
SuppliedValid(body) ==
  ValidationErrors(body) \subseteq
    {"analysis.maxConcurrentAnalyses"} \ 
      (IF "analysis" \in DOMAIN body /\ "maxConcurrentAnalyses" \in DOMAIN body.analysis
       THEN {"analysis.maxConcurrentAnalyses"} ELSE {})

\* C40: an update keeps the stored value of every field it omits; it is
\* accepted and stored when every value it supplies is valid (unless the
\* file cannot be written); a rejected update leaves the stored settings as
\* they were.
C40_PartialUpdateKeepsOmitted ==
  [][stLast'.op = "update" =>
       /\ stLast'.code # 200 => stSettings' = stSettings
       /\ stLast'.code = 200 => stSettings' = SpreadDeep(stSettings, stLast'.body)
       /\ SuppliedValid(stLast'.body) => stLast'.code \in {200, 500}]_vars

====
